---- MODULE Spec2Model ----
(***************************************************************************)
(* Model of the Presentation Graphic Stream (PGS) reader of subtile:       *)
(* the segment header codec (pgs/segment.rs), the Object Definition        *)
(* Segment reader (pgs/ods.rs) and the two display-set decoders            *)
(* (pgs/decoder.rs).  The reader is a byte cursor over an in-memory        *)
(* stream; the only read fault the cursor can raise is a short read.       *)
(***************************************************************************)
EXTENDS Integers, Sequences, FiniteSets, TLC

VARIABLES
    segs,        \* ghost: the segment descriptors the stream was framed from
    offs,        \* ghost: offs[i] is the offset of segs[i]'s header in the stream
    stream,      \* the bytes behind the reader
    strategy,    \* "TimeOnly" or "TimeImage": which PgsDecoder is driven
    overflow_checks, \* TRUE for a build with arithmetic overflow checks
    pos,         \* reader position (bytes consumed so far)
    pc,          \* "idle", "loop", "exit" or "panicked"
    start_time,  \* parse_next local
    subtitle,    \* parse_next local
    palette,     \* parse_next local (DecodeTimeImage)
    image,       \* parse_next local (DecodeTimeImage)
    prev_ods,    \* parse_next local (DecodeTimeImage)
    hdrs,        \* history: offsets of the headers read in the current call
    call_start,  \* history: reader position when the current call began
    returned,    \* history: the results of the calls made so far
    ods_out,     \* result of a direct ods::read application
    hdr_out,     \* result of a direct read_header / try_from application
    buf_out,     \* result of a direct SegmentBuf::try_from application
    content,     \* SegmentSplitter::content, the bytes not yet split off
    yielded,     \* history: what SegmentSplitter::next returned so far
    area,        \* the AreaValues offered, then the Area `self`
    area_arg,    \* the Area passed to intersect, contains and extend
    area_out,    \* result of the Area operation applied
    time_point,  \* the TimePoint displayed
    time_out,    \* result of its Display
    processor    \* SegmentProcessor: pds_data, ods_data, complete

(* The variables of the units driven on their own, outside the decoders.   *)
unitVars == <<hdr_out, buf_out, content, yielded>>

vars == <<segs, offs, stream, strategy, overflow_checks, pos, pc, start_time, subtitle,
          palette, image, prev_ods, hdrs, call_start, returned, ods_out,
          hdr_out, buf_out, content, yielded,
          area, area_arg, area_out, time_point, time_out, processor>>

(* The variables of content/area.rs, time/time_point.rs and of             *)
(* SegmentProcessor.                                                       *)
moreVars == <<area, area_arg, area_out, time_point, time_out, processor>>

-----------------------------------------------------------------------------
(* Bounds of the model.                                                    *)
MaxSegs == 4
MaxCalls == 4
MaxOdsLen == 6      \* largest declared object-data length offered to ods::read
MaxOdsData == 2     \* most payload bytes an offered ObjectDef body carries

-----------------------------------------------------------------------------
(* Option values: None is the empty sequence, Some(x) a one-element one.   *)
None == <<>>
Some(x) == <<x>>
IsSome(o) == Len(o) = 1
IsNone(o) == Len(o) = 0
Unwrap(o) == o[1]

Max(a, b) == IF a >= b THEN a ELSE b

(* Big-endian encoding of n on k bytes, and its inverse.                   *)
RECURSIVE BE(_, _)
BE(n, k) == IF k = 0 THEN <<>> ELSE Append(BE(n \div 256, k - 1), n % 256)

RECURSIVE FromBE(_)
FromBE(b) ==
    IF Len(b) = 0 THEN 0
    ELSE 256 * FromBE(SubSeq(b, 1, Len(b) - 1)) + b[Len(b)]

-----------------------------------------------------------------------------
(* pgs/segment.rs                                                          *)
MAGIC_NUMBER == <<80, 71>>
HEADER_LEN == 13

Pds == 20
Ods == 21
Pcs == 22
Wds == 23
End == 128

SegmentTypeCodes == {Pds, Ods, Pcs, Wds, End}

(* The `match value` of TryFrom<u8> for SegmentTypeCode: the variant each   *)
(* byte literal selects, "_" for the catch-all arm.                        *)
SegmentTypeCode_match_default(value) ==   \* variant: the catch-all arm gives End
    CASE value = 20 -> "Pds"
      [] value = 21 -> "Ods"
      [] value = 22 -> "Pcs"
      [] value = 23 -> "Wds"
      [] OTHER -> "End"
SegmentTypeCode_match(value) ==
    CASE value = 20 -> "Pds"
      [] value = 21 -> "Ods"
      [] value = 22 -> "Pcs"
      [] value = 23 -> "Wds"
      [] value = 128 -> "End"
      [] OTHER -> "_"

(* From<SegmentTypeCode> for u8: `val as u8`, the #[repr(u8)] discriminant *)
(* of the variant.                                                         *)
u8_from(val) ==
    CASE val = "Pds" -> Pds
      [] val = "Ods" -> Ods
      [] val = "Pcs" -> Pcs
      [] val = "Wds" -> Wds
      [] val = "End" -> End

(* TryFrom<u8> for SegmentTypeCode.  A SegmentTypeCode held in a header is *)
(* kept as its discriminant.                                               *)
SegmentTypeCode_try_from(value) ==
    LET val == SegmentTypeCode_match(value) IN
    IF val # "_"
    THEN [ok |-> TRUE, code |-> u8_from(val), err |-> "", arg |-> 0]
    ELSE [ok |-> FALSE, code |-> 0, err |-> "SegmentInvalidTypeCode", arg |-> value]

NoHeader == [pts |-> 0, type_code |-> 0, size |-> 0]

presentation_time_ticks(h) == h.pts   \* variant: the 90 kHz ticks, undivided
presentation_time(h) == h.pts \div 90
type_code(h) == h.type_code
size(h) == h.size

(* Read::read_exact on the cursor: all n bytes, or a short read that      *)
(* leaves the cursor at the end of the stream.                            *)
read_exact(s, p, n) ==
    IF p + n <= Len(s)
    THEN [ok |-> TRUE, buf |-> SubSeq(s, p + 1, p + n), pos |-> p + n]
    ELSE [ok |-> FALSE, buf |-> <<>>, pos |-> Max(p, Len(s))]

(* `let pts = u32::from_be_bytes(buffer[2..6]...)`                         *)
header_pts_from_dts(buffer) == FromBE(SubSeq(buffer, 7, 10))   \* variant: buffer[6..10]
header_pts(buffer) == FromBE(SubSeq(buffer, 3, 6))

(* variant: the type code is validated before the magic number             *)
parse_segment_header_code_first(buffer) ==
    LET tc == SegmentTypeCode_try_from(buffer[11]) IN
    IF ~tc.ok
    THEN [kind |-> "Err", hdr |-> NoHeader, err |-> tc.err, arg |-> tc.arg]
    ELSE IF SubSeq(buffer, 1, 2) # MAGIC_NUMBER
    THEN [kind |-> "Err", hdr |-> NoHeader, err |-> "SegmentPGMissing", arg |-> 0]
    ELSE [kind |-> "Some",
          hdr |-> [pts |-> header_pts(buffer),
                   type_code |-> tc.code,
                   size |-> FromBE(SubSeq(buffer, 12, 13))],
          err |-> "", arg |-> 0]
parse_segment_header(buffer) ==
    IF SubSeq(buffer, 1, 2) # MAGIC_NUMBER
    THEN [kind |-> "Err", hdr |-> NoHeader, err |-> "SegmentPGMissing", arg |-> 0]
    ELSE LET tc == SegmentTypeCode_try_from(buffer[11]) IN
         IF ~tc.ok
         THEN [kind |-> "Err", hdr |-> NoHeader, err |-> tc.err, arg |-> tc.arg]
         ELSE [kind |-> "Some",
               hdr |-> [pts |-> header_pts(buffer),
                        type_code |-> tc.code,
                        size |-> FromBE(SubSeq(buffer, 12, 13))],
               err |-> "", arg |-> 0]

read_header(s, p) ==
    LET r == read_exact(s, p, HEADER_LEN) IN
    IF r.ok
    THEN LET h == parse_segment_header(r.buf) IN
         [kind |-> h.kind, hdr |-> h.hdr, err |-> h.err, arg |-> h.arg, pos |-> r.pos]
    ELSE \* ErrorKind::UnexpectedEof: "Buffer is empty, just return to end parsing"
         [kind |-> "None", hdr |-> NoHeader, err |-> "", arg |-> 0, pos |-> r.pos]

(* pgs/mod.rs ReadExt::skip_data: fill_buf exposes the bytes left in the   *)
(* cursor; the skip is a consume when they suffice and a relative seek     *)
(* (which may pass the end of the stream) otherwise.                       *)
skip_data_clamped(s, p, to_skip) ==   \* variant: never past the buffered bytes
    LET buff_len == Max(Len(s) - p, 0) IN
    IF buff_len >= to_skip THEN p + to_skip ELSE p + buff_len
skip_data(s, p, to_skip) ==
    LET buff_len == Max(Len(s) - p, 0) IN
    IF buff_len >= to_skip
    THEN p + to_skip    \* self.consume(to_skip)
    ELSE p + to_skip    \* self.seek_relative(to_skip)

(* skip_segment(reader, header)                                            *)
skip_segment_stay(s, p, header) == p   \* variant: the body is left in place
skip_segment(s, p, header) == skip_data(s, p, size(header))

(* SegmentBuf: a view on the bytes of one buffer-mode segment.             *)
BufErr(name, a, seg_size, buf_len) ==
    [kind |-> "Err", buffer |-> <<>>, err |-> name, arg |-> a,
     seg_size |-> seg_size, buf_len |-> buf_len]
BufPanic(name) ==
    [kind |-> "Panic", buffer |-> <<>>, err |-> name, arg |-> 0,
     seg_size |-> 0, buf_len |-> 0]

(* `if seg_size as usize + 3 < buffer.len()`                               *)
buffer_len_mismatch_le(seg_size, buf_len) == seg_size + 3 <= buf_len   \* variant: <=
buffer_len_mismatch(seg_size, buf_len) == seg_size + 3 < buf_len

(* TryFrom<&[u8]> for SegmentBuf.  Indexing buffer[0] and slicing          *)
(* buffer[1..3] panic on a buffer too short for them; the conversion of    *)
(* the 2-byte slice to [u8; 2] cannot fail.                                *)
SegmentBuf_try_from(buffer) ==
    IF Len(buffer) < 1 THEN BufPanic("IndexOutOfBounds")
    ELSE LET tc == SegmentTypeCode_try_from(buffer[1]) IN
    IF ~tc.ok THEN BufErr("SegmentCodeRead", tc.arg, 0, 0)
    ELSE IF Len(buffer) < 3 THEN BufPanic("SliceIndexOutOfRange")
    ELSE LET seg_size == FromBE(SubSeq(buffer, 2, 3)) IN
    IF buffer_len_mismatch(seg_size, Len(buffer))
    THEN BufErr("BufferLen", 0, seg_size, Len(buffer))
    ELSE [kind |-> "Ok", buffer |-> buffer, err |-> "", arg |-> 0,
          seg_size |-> 0, buf_len |-> 0]

(* SegmentBuf::code, ::buffer, ::data                                      *)
SegmentBuf_code(b) ==
    LET tc == SegmentTypeCode_try_from(b.buffer[1]) IN
    IF tc.ok THEN [ok |-> TRUE, code |-> tc.code]
    ELSE [ok |-> FALSE, code |-> 0]   \* unwrap() on Err: panic
SegmentBuf_buffer(b) == b.buffer
SegmentBuf_data(b) == SubSeq(b.buffer, 4, Len(b.buffer))

(* SegmentSplitter.  `self.content.split_at(seg_size as usize + 3)`        *)
split_at_mid_no_header(seg_size) == seg_size   \* variant: header length left out
split_at_mid(seg_size) == seg_size + 3

(* SegmentSplitter::split_next on a non-empty content: the item returned   *)
(* and the content left.                                                   *)
split_next(c) ==
    LET tc == SegmentTypeCode_try_from(c[1]) IN
    IF ~tc.ok
    THEN [item |-> BufErr("TypeCode", tc.arg, 0, 0), content |-> c]
    ELSE IF Len(c) < 3
    THEN [item |-> BufPanic("SliceIndexOutOfRange"), content |-> c]
    ELSE LET seg_size == FromBE(SubSeq(c, 2, 3))
             mid == split_at_mid(seg_size) IN
    IF mid > Len(c)
    THEN [item |-> BufPanic("SplitAtOutOfBounds"), content |-> c]
    ELSE LET seg_data == SubSeq(c, 1, mid)
             remain == SubSeq(c, mid + 1, Len(c))
             b == SegmentBuf_try_from(seg_data) IN
         [item |-> IF b.kind = "Err" THEN [b EXCEPT !.err = "BufCreation"] ELSE b,
          content |-> remain]

NoneItem == [kind |-> "None", buffer |-> <<>>, err |-> "", arg |-> 0,
             seg_size |-> 0, buf_len |-> 0]

(* Iterator::next for SegmentSplitter                                      *)
SegmentSplitter_next(c) ==
    IF Len(c) = 0 THEN [item |-> NoneItem, content |-> c]
    ELSE split_next(c)

-----------------------------------------------------------------------------
(* pgs/ods.rs                                                              *)
Last == 64
First == 128
FirstAndLast == 192

LastInSequenceFlags == {Last, First, FirstAndLast}

(* TryFrom<u8> for LastInSequenceFlag *)
LastInSequenceFlag_try_from(value) ==
    IF value \in LastInSequenceFlags
    THEN [ok |-> TRUE, flag |-> value, err |-> "", arg |-> 0]
    ELSE [ok |-> FALSE, flag |-> 0, err |-> "LastInSequenceFlagInvalidValue",
          arg |-> value]

NoObject == [width |-> 0, height |-> 0, object_data |-> <<>>]

OdsErr(name, a, p) ==
    [kind |-> "Err", complete |-> FALSE, obj |-> NoObject, err |-> name, arg |-> a, pos |-> p]
OdsPanic(name, p) ==
    [kind |-> "Panic", complete |-> FALSE, obj |-> NoObject, err |-> name, arg |-> 0, pos |-> p]

(* handle_object_fields: skip `Object ID` and `Object Version Number`.     *)
handle_object_fields(s, p) == skip_data(s, p, 2 + 1)

(* read_obj_data_length: 3 bytes, big-endian, widened to usize.            *)
read_obj_data_length(s, p) ==
    LET r == read_exact(s, p, 3) IN
    [ok |-> r.ok, value |-> FromBE(r.buf), pos |-> r.pos]

(* read_img_size: width then height, each 2 bytes big-endian.  `failed`    *)
(* names the field whose read came up short.                               *)
read_img_size(s, p) ==
    LET w == read_exact(s, p, 2)
        h == read_exact(s, w.pos, 2) IN
    IF ~w.ok THEN [ok |-> FALSE, failed |-> "ReadWidth", width |-> 0, height |-> 0,
                   pos |-> w.pos]
    ELSE IF ~h.ok THEN [ok |-> FALSE, failed |-> "ReadHeight", width |-> 0,
                        height |-> 0, pos |-> h.pos]
    ELSE [ok |-> TRUE, failed |-> "", width |-> FromBE(w.buf),
          height |-> FromBE(h.buf), pos |-> h.pos]

(* `data_size - 4` on usize.  With overflow checks a length below 4 is an  *)
(* arithmetic panic; without them the value wraps: a negative number here  *)
(* stands for that number plus 2^64.                                       *)
data_size_of(object_data_length) == object_data_length - 4

(* `assert!(segments_size == 11 + data_size)`; the sum wraps like the      *)
(* difference, so the comparison is that of the integers.                  *)
assert_segments_size_off(segments_size, data_size) == TRUE   \* variant: no check
assert_segments_size(segments_size, data_size) == segments_size = 11 + data_size

(* ods::read.  oc: the build checks arithmetic overflow.                   *)
ods_read(s, p, segments_size, oc) ==
    LET p1 == handle_object_fields(s, p)
        f  == read_exact(s, p1, 1)
        fl == LastInSequenceFlag_try_from(f.buf[1])
        l  == read_obj_data_length(s, f.pos)
        data_size == data_size_of(l.value)
        wh == read_img_size(s, l.pos)
        d  == read_exact(s, wh.pos, data_size)
    IN
    IF ~f.ok THEN OdsErr("LastInSequenceFlagReadData", 0, f.pos)
    ELSE IF ~fl.ok THEN OdsErr(fl.err, fl.arg, f.pos)
    ELSE IF ~l.ok THEN OdsErr("ReadObjectDataLength", 0, l.pos)
    ELSE IF oc /\ l.value < 4 THEN OdsPanic("SubtractWithOverflow", l.pos)
    ELSE IF ~wh.ok THEN OdsErr(wh.failed, 0, wh.pos)
    ELSE IF fl.flag = FirstAndLast
    THEN IF ~assert_segments_size(segments_size, data_size)
         THEN OdsPanic("AssertSegmentsSize", wh.pos)
         ELSE IF data_size < 0
         THEN \* vec![0; data_size] beyond isize::MAX
              OdsPanic("CapacityOverflow", wh.pos)
         ELSE IF ~d.ok THEN OdsErr("ObjectData", data_size, d.pos)
         ELSE [kind |-> "Ok", complete |-> TRUE,
               obj |-> [width |-> wh.width, height |-> wh.height,
                        object_data |-> d.buf],
               err |-> "", arg |-> 0, pos |-> d.pos]
    ELSE OdsErr("LastInSequenceFlagNotManaged", fl.flag, wh.pos)

(* pds::read(reader, seg_size): the palette decoder is a collaborator; it  *)
(* turns the seg_size payload bytes into a palette, kept here as the bytes *)
(* themselves.                                                             *)
pds_read(s, p, seg_size) ==
    LET r == read_exact(s, p, seg_size) IN
    [ok |-> r.ok, palette |-> r.buf, pos |-> r.pos]

(* RleEncodedImage::new *)
RleEncodedImage_new(width, height, pal, data) ==
    [width |-> width, height |-> height, palette |-> pal, data |-> data]

(* time/time_point.rs, time/time_span.rs *)
TimePoint_from_msecs(time) == time
TimeSpan_new(start, end) == [start |-> start, end |-> end]

-----------------------------------------------------------------------------
(* pgs/decoder.rs                                                          *)

(* The value a parse_next call ends with: Ok(sub), Err(err) or a panic.    *)
Result(kind, sub, err, arg) == [kind |-> kind, sub |-> sub, err |-> err, arg |-> arg]

(* The locals of a running parse_next call, with the reader position.     *)
Fail(d, p, err, arg) ==
    [d EXCEPT !.pos = p, !.pc = "idle", !.out = Some(Result("Err", None, err, arg))]
Panic(d, p, what) ==
    [d EXCEPT !.pos = p, !.pc = "panicked",
              !.out = Some(Result("Panic", None, what, 0))]

(* The scrutinee of `while let Some(seg_header) = { ... }`: no header is   *)
(* read once a subtitle is formed.                                         *)
while_let_always_read(s, d) == read_header(s, d.pos)   \* variant: reads on
while_let_header(s, d) ==
    IF IsSome(d.subtitle)
    THEN [kind |-> "None", hdr |-> NoHeader, err |-> "", arg |-> 0, pos |-> d.pos]
    ELSE read_header(s, d.pos)

(* DecodeTimeOnly::parse_next, one turn of the `while let` loop.           *)
DecodeTimeOnly_loop(s, d) ==
    LET r == while_let_header(s, d) IN
    IF r.kind = "Err" THEN Fail(d, r.pos, r.err, r.arg)
    ELSE IF r.kind = "None" THEN [d EXCEPT !.pos = r.pos, !.pc = "exit"]
    ELSE
    LET seg_header == r.hdr
        e == [d EXCEPT !.pos = r.pos, !.hdrs = Append(@, d.pos)] IN
    IF type_code(seg_header) = End
    THEN LET time == TimePoint_from_msecs(presentation_time(seg_header)) IN
         IF IsSome(d.start_time)
         THEN [e EXCEPT !.subtitle = Some(TimeSpan_new(Unwrap(d.start_time), time))]
         ELSE [e EXCEPT !.start_time = Some(time)]
    ELSE \* Segment content are not taken into account, skipped
         [e EXCEPT !.pos = skip_segment(s, r.pos, seg_header)]

(* variant: a start left pending at the end of input is an error          *)
DecodeTimeOnly_return_strict(d) ==
    IF IsSome(d.start_time) /\ IsNone(d.subtitle)
    THEN Fail(d, d.pos, "MissingEnd", 0)
    ELSE [d EXCEPT !.pc = "idle", !.out = Some(Result("Ok", d.subtitle, "", 0))]

(* DecodeTimeOnly::parse_next, after the loop.                             *)
DecodeTimeOnly_return(d) ==
    [d EXCEPT !.pc = "idle", !.out = Some(Result("Ok", d.subtitle, "", 0))]

(* DecodeTimeImage::parse_next, the Pds arm once pds::read succeeded.      *)
DecodeTimeImage_pds_keep_first(e, pds) ==   \* variant: an earlier palette stays
    [e EXCEPT !.pos = pds.pos,
              !.palette = IF IsSome(e.palette) THEN e.palette ELSE Some(pds.palette)]
DecodeTimeImage_pds(e, pds) ==
    [e EXCEPT !.pos = pds.pos, !.palette = Some(pds.palette)]

(* DecodeTimeImage::parse_next, the Ods arm once ods::read succeeded; t is *)
(* the state after prev_ods.take().  ods::read of pgs/ods.rs yields only   *)
(* complete objects (ods.complete).                                        *)
DecodeTimeImage_ods_unwrap(t, ods) ==   \* variant: palette.take().unwrap()
    IF IsNone(t.palette) THEN Panic(t, ods.pos, "UnwrapNone")
    ELSE [t EXCEPT !.pos = ods.pos, !.palette = None,
                   !.image = Some(RleEncodedImage_new(
                       ods.obj.width, ods.obj.height,
                       Unwrap(t.palette), ods.obj.object_data))]
DecodeTimeImage_ods(t, ods) ==
    IF ods.complete
    THEN IF IsNone(t.palette)   \* palette.take().ok_or(MissingPalette)?
         THEN Fail(t, ods.pos, "MissingPalette", 0)
         ELSE [t EXCEPT !.pos = ods.pos,
                        !.palette = None,
                        !.image = Some(RleEncodedImage_new(
                            ods.obj.width, ods.obj.height,
                            Unwrap(t.palette), ods.obj.object_data))]
    ELSE [t EXCEPT !.pos = ods.pos, !.prev_ods = Some(ods.obj)]

(* DecodeTimeImage::parse_next, the End arm; e is the state after the      *)
(* header read.                                                            *)
DecodeTimeImage_end_lenient(e, time) ==   \* variant: no image, no entry, no error
    IF IsSome(e.start_time)
    THEN IF IsNone(e.image)
         THEN [e EXCEPT !.start_time = Some(time)]
         ELSE [e EXCEPT !.image = None,
                        !.subtitle =
                            Some([times |-> TimeSpan_new(Unwrap(e.start_time), time),
                                  image |-> Unwrap(e.image)])]
    ELSE [e EXCEPT !.start_time = Some(time)]
DecodeTimeImage_end(e, time) ==
    IF IsSome(e.start_time)
    THEN LET times == TimeSpan_new(Unwrap(e.start_time), time) IN
         IF IsNone(e.image)   \* image.take().ok_or(MissingImage)?
         THEN Fail(e, e.pos, "MissingImage", 0)
         ELSE [e EXCEPT !.image = None,
                        !.subtitle = Some([times |-> times,
                                           image |-> Unwrap(e.image)])]
    ELSE [e EXCEPT !.start_time = Some(time)]

(* DecodeTimeImage::parse_next, one turn of the `while let` loop.          *)
DecodeTimeImage_loop(s, d, oc) ==
    LET r == while_let_header(s, d) IN
    IF r.kind = "Err" THEN Fail(d, r.pos, r.err, r.arg)
    ELSE IF r.kind = "None" THEN [d EXCEPT !.pos = r.pos, !.pc = "exit"]
    ELSE
    LET seg_header == r.hdr
        e == [d EXCEPT !.pos = r.pos, !.hdrs = Append(@, d.pos)] IN
    IF type_code(seg_header) = Pds
    THEN LET pds == pds_read(s, r.pos, size(seg_header)) IN
         IF ~pds.ok THEN Fail(e, pds.pos, "PDSParse", 0)
         ELSE DecodeTimeImage_pds(e, pds)
    ELSE IF type_code(seg_header) = Ods
    THEN LET ods == ods_read(s, r.pos, size(seg_header), oc)
             t == [e EXCEPT !.prev_ods = None]   \* prev_ods.take()
         IN
         IF ods.kind = "Err" THEN Fail(t, ods.pos, ods.err, ods.arg)
         ELSE IF ods.kind = "Panic" THEN Panic(t, ods.pos, ods.err)
         ELSE DecodeTimeImage_ods(t, ods)
    ELSE IF type_code(seg_header) = End
    THEN DecodeTimeImage_end(e, TimePoint_from_msecs(presentation_time(seg_header)))
    ELSE \* Segment not taken into account are skipped
         [e EXCEPT !.pos = skip_segment(s, r.pos, seg_header)]

(* DecodeTimeImage::parse_next, after the loop: the two assertions.        *)
DecodeTimeImage_return(d) ==
    IF ~IsNone(d.palette) THEN Panic(d, d.pos, "AssertPaletteIsNone")
    ELSE IF ~IsNone(d.prev_ods) THEN Panic(d, d.pos, "AssertPrevOdsIsNone")
    ELSE [d EXCEPT !.pc = "idle", !.out = Some(Result("Ok", d.subtitle, "", 0))]

(* PgsDecoder::parse_next, dispatched on the implementing type.            *)
parse_next_loop(strat, s, d, oc) ==
    IF strat = "TimeOnly" THEN DecodeTimeOnly_loop(s, d)
    ELSE DecodeTimeImage_loop(s, d, oc)

parse_next_return(strat, d) ==
    IF strat = "TimeOnly" THEN DecodeTimeOnly_return(d)
    ELSE DecodeTimeImage_return(d)

(* `let mut start_time = None; ...` at the head of parse_next.             *)
parse_next_enter(p) ==
    [pos |-> p, pc |-> "loop", start_time |-> None, subtitle |-> None,
     palette |-> None, image |-> None, prev_ods |-> None, hdrs |-> <<>>,
     out |-> None]

-----------------------------------------------------------------------------
(* Streams.  A segment descriptor is framed as the stream-mode layout:     *)
(* magic, presentation timestamp, decode timestamp, type code, size, body. *)
Seg(magic, pts, dts, code, sz, body) ==
    [magic |-> magic, pts |-> pts, dts |-> dts, code |-> code, size |-> sz,
     body |-> body]

Frame(g) ==
    g.magic \o BE(g.pts, 4) \o BE(g.dts, 4) \o <<g.code>> \o BE(g.size, 2) \o g.body

RECURSIVE Flatten(_)
Flatten(gs) == IF Len(gs) = 0 THEN <<>> ELSE Frame(Head(gs)) \o Flatten(Tail(gs))

(* Offset of the i-th segment's header in the stream (i in 1..Len+1).      *)
RECURSIVE Offset(_, _)
Offset(gs, i) == IF i <= 1 THEN 0 ELSE Offset(gs, i - 1) + Len(Frame(gs[i - 1]))

SeqsUpTo(S, n) == UNION {[1..k -> S] : k \in 0..n}

PtsValues == {179, 4500}

EndSeg(pts) == Seg(MAGIC_NUMBER, pts, 7, End, 0, <<>>)
PdsSeg(payload) == Seg(MAGIC_NUMBER, 90, 7, Pds, Len(payload), payload)
SkipSeg(code, body) == Seg(MAGIC_NUMBER, 90, 7, code, Len(body), body)
OdsBody(flag, len, w, h, data) ==
    <<0, 1, 0, flag>> \o BE(len, 3) \o BE(w, 2) \o BE(h, 2) \o data
OdsSeg(flag, w, h, data) ==
    LET body == OdsBody(flag, Len(data) + 4, w, h, data) IN
    Seg(MAGIC_NUMBER, 90, 7, Ods, Len(body), body)

TimeOnlySegs ==
    {EndSeg(p) : p \in PtsValues}
    \cup {SkipSeg(Pcs, <<1, 2>>), SkipSeg(Wds, <<>>), PdsSeg(<<5>>),
          OdsSeg(FirstAndLast, 2, 1, <<8>>),
          Seg(MAGIC_NUMBER, 90, 7, 129, 0, <<>>),
          Seg(MAGIC_NUMBER, 270, 7, End, 2, MAGIC_NUMBER)}

TimeImageSegs ==
    {EndSeg(p) : p \in PtsValues}
    \cup {PdsSeg(<<5>>), PdsSeg(<<6>>),
          OdsSeg(FirstAndLast, 2, 1, <<8, 9>>),
          OdsSeg(First, 2, 1, <<8>>),
          SkipSeg(Wds, <<1>>)}

NoOdsOut == OdsErr("", 0, 0)
NoHdrOut == [kind |-> "", hdr |-> NoHeader, err |-> "", arg |-> 0, pos |-> 0]
NoBufOut == [kind |-> "", buffer |-> <<>>, err |-> "", arg |-> 0, seg_size |-> 0,
             buf_len |-> 0, code |-> 0, data |-> <<>>]

NoAreaValues == [x1 |-> 0, y1 |-> 0, x2 |-> 0, y2 |-> 0]
NoAreaOut == [kind |-> "", self |-> NoAreaValues, num |-> 0, flag |-> FALSE, err |-> ""]
(* TimePoint(0): an i64 is kept as its sign and its decimal magnitude.     *)
NoTimePoint == [neg |-> FALSE, mag |-> <<0>>]
NoTimeOut == [kind |-> "", text |-> <<>>]
(* SegmentProcessor::default()                                             *)
SegmentProcessor_default == [pds_data |-> None, ods_data |-> None, complete |-> FALSE]

(* No Area, TimePoint or SegmentProcessor is in use.                       *)
MoreIdle ==
    /\ area = NoAreaValues
    /\ area_arg = NoAreaValues
    /\ area_out = NoAreaOut
    /\ time_point = NoTimePoint
    /\ time_out = NoTimeOut
    /\ processor = SegmentProcessor_default

(* The units driven on their own are not in use.                           *)
UnitsIdle ==
    /\ hdr_out = NoHdrOut
    /\ buf_out = NoBufOut
    /\ content = <<>>
    /\ yielded = <<>>

InitDecoder(strat, alphabet) ==
    /\ segs \in SeqsUpTo(alphabet, MaxSegs)
    /\ offs = [i \in 1..(Len(segs) + 1) |-> Offset(segs, i)]
    /\ stream = Flatten(segs)
    /\ strategy = strat
    /\ overflow_checks = TRUE
    /\ pos = 0
    /\ pc = "idle"
    /\ start_time = None
    /\ subtitle = None
    /\ palette = None
    /\ image = None
    /\ prev_ods = None
    /\ hdrs = <<>>
    /\ call_start = 0
    /\ returned = <<>>
    /\ ods_out = NoOdsOut
    /\ UnitsIdle
    /\ MoreIdle

Locals ==
    [pos |-> pos, pc |-> pc, start_time |-> start_time, subtitle |-> subtitle,
     palette |-> palette, image |-> image, prev_ods |-> prev_ods, hdrs |-> hdrs,
     out |-> None]

Become(d) ==
    /\ pos' = d.pos
    /\ pc' = d.pc
    /\ start_time' = d.start_time
    /\ subtitle' = d.subtitle
    /\ palette' = d.palette
    /\ image' = d.image
    /\ prev_ods' = d.prev_ods
    /\ hdrs' = d.hdrs
    /\ returned' = returned \o d.out
    /\ UNCHANGED <<segs, offs, stream, strategy, overflow_checks, ods_out>>
    /\ UNCHANGED unitVars
    /\ UNCHANGED moreVars

(* The caller invokes parse_next on the reader.                            *)
Call ==
    /\ pc = "idle"
    /\ Len(returned) < MaxCalls
    /\ call_start' = pos
    /\ Become(parse_next_enter(pos))

(* One turn of the loop of the running call.                               *)
LoopStep ==
    /\ pc = "loop"
    /\ UNCHANGED call_start
    /\ Become(parse_next_loop(strategy, stream, Locals, overflow_checks))

(* The loop is over: the call ends.                                        *)
Return ==
    /\ pc = "exit"
    /\ UNCHANGED call_start
    /\ Become(parse_next_return(strategy, Locals))

NextDecoder == Call \/ LoopStep \/ Return

InitTimeOnly == InitDecoder("TimeOnly", TimeOnlySegs)
InitTimeImage == InitDecoder("TimeImage", TimeImageSegs)

(* ods::read applied to one ObjectDef segment, as the Ods arm of           *)
(* DecodeTimeImage::parse_next applies it: header first, then the body     *)
(* with the header's size.                                                 *)
OdsFlagBytes == {Last, First, FirstAndLast, 0, 193}
PayloadBytes == <<8, 9, 10, 11, 12, 13, 14, 15>>

OdsInputs ==
    {Seg(MAGIC_NUMBER, 90, 7, Ods, sz, OdsBody(fl, len, 2, 1, SubSeq(PayloadBytes, 1, n))) :
        fl \in OdsFlagBytes, len \in 0..MaxOdsLen, n \in 0..MaxOdsData,
        sz \in 7..(11 + MaxOdsData + 1)}

InitOds ==
    /\ segs \in {<<g>> : g \in OdsInputs}
    /\ offs = [i \in 1..(Len(segs) + 1) |-> Offset(segs, i)]
    /\ \E k \in HEADER_LEN..(Len(Frame(segs[1])) + HEADER_LEN) :
          stream = SubSeq(Frame(segs[1]) \o Frame(EndSeg(90)), 1, k)
    /\ strategy = "TimeImage"
    /\ overflow_checks \in BOOLEAN
    /\ pos = 0
    /\ pc = "ods"
    /\ start_time = None
    /\ subtitle = None
    /\ palette = None
    /\ image = None
    /\ prev_ods = None
    /\ hdrs = <<>>
    /\ call_start = 0
    /\ returned = <<>>
    /\ ods_out = NoOdsOut
    /\ UnitsIdle
    /\ MoreIdle

OdsSegment ==
    /\ pc = "ods"
    /\ LET h == read_header(stream, pos) IN
       /\ h.kind = "Some"
       /\ type_code(h.hdr) = Ods
       /\ ods_out' = ods_read(stream, h.pos, size(h.hdr), overflow_checks)
       /\ pos' = ods_out'.pos
       /\ hdrs' = Append(hdrs, pos)
    /\ pc' = "done"
    /\ UNCHANGED <<segs, offs, stream, strategy, overflow_checks, start_time,
                   subtitle, palette, image, prev_ods, call_start, returned>>
    /\ UNCHANGED unitVars
    /\ UNCHANGED moreVars

NextOds == OdsSegment

SpecOds == InitOds /\ [][NextOds]_vars

SpecTimeOnly == InitTimeOnly /\ [][NextDecoder]_vars
SpecTimeImage == InitTimeImage /\ [][NextDecoder]_vars
Spec == (InitTimeOnly \/ InitTimeImage) /\ [][NextDecoder]_vars

-----------------------------------------------------------------------------
(* The units of pgs/segment.rs driven on their own.                        *)
MaxHeaderBody == 2   \* most body bytes behind an offered header
MaxBufData == 3      \* most payload bytes of an offered buffer-mode segment
MaxSplit == 3        \* most buffer-mode segments in one offered content
MaxYield == 5        \* most SegmentSplitter::next calls followed

(* No decoder runs: its locals and histories stay as constructed.          *)
DecoderIdle ==
    /\ strategy = "None"
    /\ overflow_checks = TRUE
    /\ start_time = None
    /\ subtitle = None
    /\ palette = None
    /\ image = None
    /\ prev_ods = None
    /\ hdrs = <<>>
    /\ call_start = 0
    /\ returned = <<>>
    /\ ods_out = NoOdsOut

decoderVars == <<strategy, overflow_checks, start_time, subtitle, palette, image,
                 prev_ods, hdrs, call_start, returned, ods_out>>

(* SegmentTypeCode::try_from applied to every u8, then u8::from applied    *)
(* to the variant obtained.                                                *)
U8 == 0..255

InitTypeCode ==
    /\ segs = <<>>
    /\ offs = <<>>
    /\ stream \in {<<b>> : b \in U8}
    /\ pos = 0
    /\ pc = "code"
    /\ DecoderIdle
    /\ MoreIdle
    /\ UnitsIdle

TypeCodeTryFrom ==
    /\ pc = "code"
    /\ LET val == SegmentTypeCode_match(stream[1])
           tc == SegmentTypeCode_try_from(stream[1]) IN
       hdr_out' = [kind |-> IF tc.ok THEN "Ok" ELSE "Err",
                   variant |-> val,
                   byte |-> IF tc.ok THEN u8_from(val) ELSE 0,
                   err |-> tc.err, arg |-> tc.arg]
    /\ pc' = "done"
    /\ UNCHANGED <<segs, offs, stream, pos, buf_out, content, yielded>>
    /\ UNCHANGED decoderVars
    /\ UNCHANGED moreVars

NextTypeCode == TypeCodeTryFrom

SpecTypeCode == InitTypeCode /\ [][NextTypeCode]_vars

(* read_header, then skip_segment, applied to one header offered whole or  *)
(* cut short, with more or fewer body bytes behind it than its size says.  *)
HeaderMagics == {MAGIC_NUMBER, <<80, 70>>, <<71, 80>>}
HeaderPts == PtsValues \cup {16909060}
DtsValues == {7, 1346863104}
HeaderCodes == SegmentTypeCodes \cup {0, 129}
HeaderSizes == 0..(MaxHeaderBody + 1) \cup {258}
BodyBytes == <<1, 2, 3, 4, 5, 6, 7, 8>>

HeaderInputs ==
    {Seg(m, p, d, c, sz, SubSeq(BodyBytes, 1, n)) :
        m \in HeaderMagics, p \in HeaderPts, d \in DtsValues, c \in HeaderCodes,
        sz \in HeaderSizes, n \in 0..MaxHeaderBody}

InitHeader ==
    /\ segs \in {<<g>> : g \in HeaderInputs}
    /\ offs = <<0, Len(Frame(segs[1]))>>
    /\ \E k \in 0..Len(Frame(segs[1])) : stream = SubSeq(Frame(segs[1]), 1, k)
    /\ pos = 0
    /\ pc = "header"
    /\ DecoderIdle
    /\ MoreIdle
    /\ UnitsIdle

ReadHeader ==
    /\ pc = "header"
    /\ hdr_out' = read_header(stream, pos)
    /\ pos' = hdr_out'.pos
    /\ pc' = "read"
    /\ UNCHANGED <<segs, offs, stream, buf_out, content, yielded>>
    /\ UNCHANGED decoderVars
    /\ UNCHANGED moreVars

SkipSegment ==
    /\ pc = "read"
    /\ hdr_out.kind = "Some"
    /\ pos' = skip_segment(stream, pos, hdr_out.hdr)
    /\ pc' = "skipped"
    /\ UNCHANGED <<segs, offs, stream, hdr_out, buf_out, content, yielded>>
    /\ UNCHANGED decoderVars
    /\ UNCHANGED moreVars

NextHeader == ReadHeader \/ SkipSegment

SpecHeader == InitHeader /\ [][NextHeader]_vars

(* SegmentBuf::try_from applied to one buffer, then the accessors of the   *)
(* view obtained.                                                          *)
BufCodes == {Pds, Ods, End, 0}
BufSizeBytes == {<<0, n>> : n \in 0..(MaxBufData + 1)} \cup {<<1, 0>>}

BufInputs ==
    {<<c>> \o sz \o SubSeq(BodyBytes, 1, n) :
        c \in BufCodes, sz \in BufSizeBytes, n \in 0..MaxBufData}

InitSegmentBuf ==
    /\ segs = <<>>
    /\ offs = <<>>
    /\ \E b \in BufInputs : \E k \in 0..Len(b) : stream = SubSeq(b, 1, k)
    /\ pos = 0
    /\ pc = "buf"
    /\ DecoderIdle
    /\ MoreIdle
    /\ UnitsIdle

BufTryFrom ==
    /\ pc = "buf"
    /\ LET b == SegmentBuf_try_from(stream) IN
       buf_out' = [kind |-> b.kind, buffer |-> b.buffer, err |-> b.err, arg |-> b.arg,
                   seg_size |-> b.seg_size, buf_len |-> b.buf_len,
                   code |-> 0, data |-> <<>>]
    /\ pc' = IF buf_out'.kind = "Panic" THEN "panicked" ELSE "built"
    /\ UNCHANGED <<segs, offs, stream, pos, hdr_out, content, yielded>>
    /\ UNCHANGED decoderVars
    /\ UNCHANGED moreVars

BufView ==
    /\ pc = "built"
    /\ buf_out.kind = "Ok"
    /\ LET c == SegmentBuf_code(buf_out) IN
       /\ buf_out' = [buf_out EXCEPT !.code = c.code,
                                     !.buffer = SegmentBuf_buffer(buf_out),
                                     !.data = SegmentBuf_data(buf_out)]
       /\ pc' = IF c.ok THEN "viewed" ELSE "panicked"
    /\ UNCHANGED <<segs, offs, stream, pos, hdr_out, content, yielded>>
    /\ UNCHANGED decoderVars
    /\ UNCHANGED moreVars

NextSegmentBuf == BufTryFrom \/ BufView

SpecSegmentBuf == InitSegmentBuf /\ [][NextSegmentBuf]_vars

(* SegmentSplitter::from(content), then Iterator::next until it returns    *)
(* None or panics.  A buffer-mode segment is framed as type code, size,    *)
(* payload.                                                                *)
BufSeg(code, sz, body) == [code |-> code, size |-> sz, body |-> body]
BufFrame(g) == <<g.code>> \o BE(g.size, 2) \o g.body

RECURSIVE BufFlatten(_)
BufFlatten(gs) ==
    IF Len(gs) = 0 THEN <<>> ELSE BufFrame(Head(gs)) \o BufFlatten(Tail(gs))

SplitterSegs ==
    {BufSeg(End, 0, <<>>), BufSeg(Pds, 2, <<5, 6>>), BufSeg(Ods, 1, <<8>>),
     BufSeg(Wds, 1, <<20>>),
     BufSeg(0, 0, <<>>), BufSeg(Pcs, 2, <<1>>), BufSeg(Pds, 0, <<9>>)}

InitSplitter ==
    /\ segs \in SeqsUpTo(SplitterSegs, MaxSplit)
    /\ offs = <<>>
    /\ stream = BufFlatten(segs)
    /\ content = stream    \* SegmentSplitter::from
    /\ yielded = <<>>
    /\ hdr_out = NoHdrOut
    /\ buf_out = NoBufOut
    /\ pos = 0
    /\ pc = "split"
    /\ DecoderIdle
    /\ MoreIdle

SplitterNext ==
    /\ pc = "split"
    /\ Len(yielded) < MaxYield
    /\ LET r == SegmentSplitter_next(content) IN
       /\ yielded' = Append(yielded, r.item)
       /\ content' = r.content
       /\ pc' = CASE r.item.kind = "None" -> "finished"
                  [] r.item.kind = "Panic" -> "panicked"
                  [] OTHER -> "split"
    /\ UNCHANGED <<segs, offs, stream, pos, hdr_out, buf_out>>
    /\ UNCHANGED decoderVars
    /\ UNCHANGED moreVars

NextSplitter == SplitterNext

SpecSplitter == InitSplitter /\ [][NextSplitter]_vars

-----------------------------------------------------------------------------
(* What the stream holds, read off the segment descriptors.                *)
WellFormedSeg(g) ==
    /\ g.magic = MAGIC_NUMBER
    /\ g.code \in SegmentTypeCodes
    /\ g.size = Len(g.body)
    /\ (g.code = End => g.size = 0)

WellFormed(gs) == \A i \in 1..Len(gs) : WellFormedSeg(gs[i])

(* The index of the segment whose header starts at offset off; offsets at  *)
(* or past the end of the stream give Len(gs) + 1.                         *)
IsBoundary(off) == \E i \in 1..Len(offs) : offs[i] = off
SegAt(off) ==
    IF off >= offs[Len(offs)] THEN Len(offs)
    ELSE CHOOSE i \in 1..Len(offs) : offs[i] = off

(* Milliseconds (pts div 90) of the End segments from index i on.          *)
RECURSIVE EndTimes(_, _)
EndTimes(gs, i) ==
    IF i > Len(gs) THEN <<>>
    ELSE IF gs[i].code = End
         THEN <<gs[i].pts \div 90>> \o EndTimes(gs, i + 1)
         ELSE EndTimes(gs, i + 1)

(* Index of the k-th End segment from index i on (k >= 1, it exists).      *)
RECURSIVE EndIndex(_, _, _)
EndIndex(gs, i, k) ==
    IF gs[i].code = End
    THEN IF k = 1 THEN i ELSE EndIndex(gs, i + 1, k - 1)
    ELSE EndIndex(gs, i + 1, k)

LastReturned == returned[Len(returned)]

-----------------------------------------------------------------------------
(* C1: within one DecodeTimeOnly::parse_next call over well-formed         *)
(* segments, the first End read gives the start (pts div 90) and the       *)
(* second End read gives the end of the TimeSpan formed and returned; the  *)
(* segments of other kinds before or between them are skipped whole and    *)
(* leave the result untouched.                                             *)
C1_TimeOnlySpan ==
    (strategy = "TimeOnly" /\ WellFormed(segs)
        /\ (pc # "idle" \/ Len(returned) > 0)) =>
    LET i0 == SegAt(call_start)
        ends == EndTimes(segs, i0)
        span == [start |-> ends[1], end |-> ends[2]]
    IN
    /\ IsBoundary(call_start)
    /\ (IsSome(start_time) => Len(ends) >= 1 /\ Unwrap(start_time) = ends[1])
    /\ (IsSome(subtitle) =>
           /\ Len(ends) >= 2
           /\ Unwrap(subtitle) = span
           /\ pos = offs[EndIndex(segs, i0, 2) + 1])
    /\ (pc \in {"exit", "idle"} /\ Len(ends) >= 2 => IsSome(subtitle))
    /\ (pc = "idle" =>
           LastReturned = Result("Ok", IF Len(ends) >= 2 THEN Some(span) ELSE None,
                                 "", 0))

(* C1 witness: a span was returned by a call that skipped a segment of     *)
(* another kind before the first End and one between the two Ends, and the *)
(* two Ends carry different times.                                         *)
C1_Witness ==
    /\ strategy = "TimeOnly" /\ WellFormed(segs) /\ pc = "idle"
    /\ Len(returned) = 1 /\ IsSome(LastReturned.sub)
    /\ Len(segs) = 4
    /\ segs[1].code # End /\ segs[2].code = End
    /\ segs[3].code # End /\ segs[4].code = End
    /\ Unwrap(LastReturned.sub).start = 1
    /\ Unwrap(LastReturned.sub).end = 50


(* A formed entry was formed by the last header read, an End, and the      *)
(* reader is right after that header.                                      *)
C3_Formed ==
    IsSome(subtitle) =>
        /\ Len(hdrs) >= 2
        /\ pos = hdrs[Len(hdrs)] + HEADER_LEN
        /\ stream[hdrs[Len(hdrs)] + 11] = End
        /\ IsSome(start_time)

(* With an entry formed the loop reads nothing more and the call returns   *)
(* that entry; a call appends one result; a new call starts where the      *)
(* reader is, with empty locals.                                           *)
C3_Step ==
    /\ (pc = "loop" /\ IsSome(subtitle) =>
            pos' = pos /\ hdrs' = hdrs /\ pc' = "exit" /\ subtitle' = subtitle)
    /\ (pc = "exit" /\ IsSome(subtitle) =>
            /\ pos' = pos
            /\ (pc' = "idle" => returned' = Append(returned, Result("Ok", subtitle, "", 0))))
    /\ Len(returned') <= Len(returned) + 1
    /\ (pc = "idle" /\ pc' = "loop" =>
            /\ pos' = pos /\ call_start' = pos
            /\ start_time' = None /\ subtitle' = None /\ palette' = None
            /\ image' = None /\ prev_ods' = None /\ hdrs' = <<>>)

(* C3: for both decoders a call ends with one result; once the closing End *)
(* has formed the entry no further header is read in that call, the reader *)
(* stays right after that End's 13-byte header, and the next call starts   *)
(* there with empty start/subtitle/palette/image state.                    *)
C3_OneEntryPerCall == [](C3_Formed) /\ [][C3_Step]_vars

(* C3 witness: a call returned an entry and the following call has read    *)
(* its first header exactly where the closing End's header ended.         *)
C3_Witness ==
    /\ Len(returned) = 1 /\ IsSome(returned[1].sub)
    /\ pc = "loop" /\ Len(hdrs) = 1
    /\ hdrs[1] = call_start
    /\ stream[call_start - 2] = End
    /\ call_start < Len(stream)

(* The results of the calls made so far on a well-formed stream: the k-th  *)
(* is the span of Ends 2k-1 and 2k while there are such, Ok(None) after.   *)
C4_Results ==
    (strategy = "TimeOnly" /\ WellFormed(segs)) =>
    LET ends == EndTimes(segs, 1)
        n == Len(ends)
    IN
    /\ \A k \in 1..Len(returned) :
          returned[k] =
              Result("Ok",
                     IF k <= n \div 2
                     THEN Some([start |-> ends[2 * k - 1], end |-> ends[2 * k]])
                     ELSE None,
                     "", 0)
    /\ pos <= Len(stream)
    /\ Len(hdrs) <= Len(segs)
    /\ pc # "panicked"

(* A loop turn that does not end the loop moves the reader forward.        *)
C4_Progress ==
    (strategy = "TimeOnly" /\ WellFormed(segs) /\ pc = "loop" /\ pc' = "loop") =>
        pos' > pos

(* C4: on a well-formed stream with n End segments, repeated               *)
(* DecodeTimeOnly::parse_next calls return floor(n/2) spans, pairing the   *)
(* Ends in stream order, and Ok(None) from then on (also with an unpaired  *)
(* trailing End); every call terminates: each loop turn advances the       *)
(* reader, which never passes the end of the stream.                       *)
C4_TimeOnlyDrain == [](C4_Results) /\ [][C4_Progress]_vars

(* C4 witness: three Ends, the third unpaired: one span, then Ok(None)     *)
(* on the call that met the end of input and on the call after it.         *)
C4_Witness ==
    /\ strategy = "TimeOnly" /\ WellFormed(segs)
    /\ Len(EndTimes(segs, 1)) = 3
    /\ Len(returned) = 3 /\ pc = "idle"
    /\ IsSome(returned[1].sub) /\ IsNone(returned[2].sub) /\ IsNone(returned[3].sub)

-----------------------------------------------------------------------------
(* Ground truth for the image decoder, read off the segment descriptors.   *)

(* A FirstAndLast ObjectDef whose length fields agree with its bytes.      *)
CompleteOds(g) ==
    /\ g.code = Ods
    /\ g.size = Len(g.body)
    /\ Len(g.body) >= 11
    /\ g.body[4] = FirstAndLast
    /\ FromBE(SubSeq(g.body, 5, 7)) - 4 = Len(g.body) - 11

(* Index of the PaletteDef whose palette is held when segment j is about   *)
(* to be handled by a call that began at segment i0; 0 when none is held.  *)
RECURSIVE HeldPalette(_, _, _)
HeldPalette(gs, i0, j) ==
    IF j <= i0 THEN 0
    ELSE IF gs[j - 1].code = Pds THEN j - 1
    ELSE IF CompleteOds(gs[j - 1]) THEN 0
    ELSE HeldPalette(gs, i0, j - 1)

EndCount(gs, i0, j) == Cardinality({q \in i0..(j - 1) : gs[q].code = End})
ImageHeld(gs, i0, j) == \E q \in i0..(j - 1) : CompleteOds(gs[q])

(* The current (or last) call of the image decoder began on a segment      *)
(* boundary and has read at least one header.                              *)
ImageCallAligned ==
    /\ strategy = "TimeImage"
    /\ IsBoundary(call_start)
    /\ Len(hdrs) > 0

FirstSeg == SegAt(call_start)
LastSeg == SegAt(hdrs[Len(hdrs)])

(* C2, as claimed: whenever DecodeTimeImage::parse_next reaches its final  *)
(* return, no palette and no partial object is held, whatever the input.   *)
C2_NothingHeldAtReturn ==
    (strategy = "TimeImage" /\ pc = "exit") => IsNone(palette) /\ IsNone(prev_ods)

(* C5: a complete ObjectDef read while no palette is held ends the call    *)
(* with the error MissingPalette (no panic), right after that ObjectDef    *)
(* was read whole; MissingPalette arises in no other way.                  *)
C5_MissingPalette ==
    /\ (ImageCallAligned /\ CompleteOds(segs[LastSeg])
            /\ HeldPalette(segs, FirstSeg, LastSeg) = 0 =>
          /\ pc = "idle"
          /\ LastReturned = Result("Err", None, "MissingPalette", 0)
          /\ pos = offs[LastSeg + 1])
    /\ \A k \in 1..Len(returned) :
          returned[k].err \in {"MissingPalette", "UnwrapNone"} =>
              /\ returned[k].kind = "Err"
              /\ returned[k].err = "MissingPalette"
              /\ (k = Len(returned) /\ pc = "idle" =>
                    /\ ImageCallAligned
                    /\ CompleteOds(segs[LastSeg])
                    /\ HeldPalette(segs, FirstSeg, LastSeg) = 0
                    /\ pos = offs[LastSeg + 1])

(* C5 witness: a palette was consumed by a first complete object and a     *)
(* second complete object then met an empty palette slot.                  *)
C5_Witness ==
    /\ ImageCallAligned /\ pc = "idle"
    /\ LastReturned.err = "MissingPalette"
    /\ LastSeg = FirstSeg + 2
    /\ segs[FirstSeg].code = Pds
    /\ CompleteOds(segs[FirstSeg + 1])
    /\ CompleteOds(segs[LastSeg])
    /\ IsSome(image)

(* C6: the closing (second) End of a call read while no image was formed   *)
(* in that call ends the call with the error MissingImage and no subtitle; *)
(* MissingImage arises in no other way.                                    *)
C6_MissingImage ==
    /\ (ImageCallAligned /\ LastSeg <= Len(segs) /\ segs[LastSeg].code = End
            /\ EndCount(segs, FirstSeg, LastSeg) >= 1
            /\ ~ImageHeld(segs, FirstSeg, LastSeg) =>
          /\ pc = "idle"
          /\ LastReturned = Result("Err", None, "MissingImage", 0)
          /\ IsNone(subtitle)
          /\ pos = offs[LastSeg] + HEADER_LEN)
    /\ \A k \in 1..Len(returned) :
          returned[k].err = "MissingImage" =>
              /\ returned[k].kind = "Err"
              /\ IsNone(returned[k].sub)
              /\ (k = Len(returned) /\ pc = "idle" =>
                    /\ ImageCallAligned
                    /\ segs[LastSeg].code = End
                    /\ EndCount(segs, FirstSeg, LastSeg) = 1
                    /\ ~ImageHeld(segs, FirstSeg, LastSeg))

(* C6 witness: two consecutive End segments open the call; the second one  *)
(* ends it with MissingImage.                                              *)
C6_Witness ==
    /\ ImageCallAligned /\ pc = "idle"
    /\ LastReturned.err = "MissingImage"
    /\ LastSeg = FirstSeg + 1
    /\ segs[FirstSeg].code = End /\ segs[LastSeg].code = End

(* C7: each PaletteDef read replaces the palette held; the image formed by *)
(* a complete ObjectDef carries the palette of the last PaletteDef read    *)
(* before it (and the object's size and payload), and the palette slot is  *)
(* empty afterwards.                                                       *)
C7_LastPaletteWins ==
    ImageCallAligned /\ LastSeg <= Len(segs) =>
    LET g == segs[LastSeg]
        p == HeldPalette(segs, FirstSeg, LastSeg)
    IN
    /\ (g.code = Pds => palette = Some(g.body))
    /\ (CompleteOds(g) /\ p # 0 =>
          /\ image = Some(RleEncodedImage_new(
                 FromBE(SubSeq(g.body, 8, 9)), FromBE(SubSeq(g.body, 10, 11)),
                 segs[p].body, SubSeq(g.body, 12, Len(g.body))))
          /\ \A q \in (p + 1)..(LastSeg - 1) : segs[q].code # Pds
          /\ IsNone(palette))

(* C7 witness: two PaletteDefs with different payloads, then a complete    *)
(* ObjectDef: the image holds the second palette.                          *)
C7_Witness ==
    /\ ImageCallAligned /\ LastSeg = FirstSeg + 2
    /\ segs[FirstSeg].code = Pds /\ segs[FirstSeg + 1].code = Pds
    /\ segs[FirstSeg].body # segs[FirstSeg + 1].body
    /\ CompleteOds(segs[LastSeg])
    /\ IsSome(image) /\ Unwrap(image).palette = segs[FirstSeg + 1].body
    /\ IsNone(palette)

-----------------------------------------------------------------------------
(* The ObjectDef segment handed to ods::read, read off its descriptor.     *)
OdsIn == segs[1]
OdsFlag == OdsIn.body[4]
OdsLength == FromBE(SubSeq(OdsIn.body, 5, 7))
OdsPayload == SubSeq(OdsIn.body, 12, Len(OdsIn.body))
BodyStart == HEADER_LEN
(* ods::read has run and the stream held the 11 bytes of fixed fields.     *)
OdsFieldsRead == pc = "done" /\ Len(stream) >= BodyStart + 11

(* C8, as claimed: an ObjectDef flagged First is accepted and held as the  *)
(* partial object (its width, height and payload bytes so far) that the    *)
(* segment flagged Last then completes; no object is produced before Last. *)
C8_FirstIsHeld ==
    (OdsFieldsRead /\ OdsFlag = First /\ OdsLength >= 4
        /\ OdsIn.size = Len(OdsIn.body) /\ Len(stream) >= BodyStart + OdsIn.size) =>
    /\ ods_out.kind = "Ok"
    /\ ~ods_out.complete
    /\ ods_out.obj = [width |-> 2, height |-> 1, object_data |-> OdsPayload]

(* C9, as claimed: an unknown flag byte fails with                         *)
(* LastInSequenceFlagInvalidValue carrying the byte, First alone and Last  *)
(* alone fail with LastInSequenceFlagNotManaged carrying the flag, and in  *)
(* neither case does ods::read panic or return an object.                  *)
C9_FlagErrors ==
    (OdsFieldsRead /\ OdsFlag # FirstAndLast) =>
    /\ ods_out.kind = "Err"
    /\ ods_out.arg = OdsFlag
    /\ ods_out.err = IF OdsFlag \in {First, Last}
                     THEN "LastInSequenceFlagNotManaged"
                     ELSE "LastInSequenceFlagInvalidValue"

OdsLengthRead ==
    /\ pc = "done"
    /\ Len(stream) >= BodyStart + 7
    /\ OdsFlag \in LastInSequenceFlags

(* C11, as claimed: for every declared object-data length L read from an   *)
(* ObjectDef segment, the payload length taken is L - 4, never below zero  *)
(* and never wrapped, also for L in 0..3, and an object returned holds     *)
(* exactly L - 4 payload bytes.                                            *)
C11_LengthNeverUnderflows ==
    OdsLengthRead =>
    /\ data_size_of(OdsLength) >= 0
    /\ ods_out.err # "SubtractWithOverflow"
    /\ (ods_out.kind = "Ok" => Len(ods_out.obj.object_data) = OdsLength - 4)

-----------------------------------------------------------------------------
(* C12, as claimed: read_header on a stream holding between 1 and 12       *)
(* bytes, fewer than the 13 of a header, returns the error                 *)
(* SegmentFailReadHeader, not Ok(None).                                    *)
C12_ShortReadFails ==
    (pc = "read" /\ Len(stream) >= 1 /\ Len(stream) < HEADER_LEN) =>
    /\ hdr_out.kind = "Err"
    /\ hdr_out.err = "SegmentFailReadHeader"

(* The header bytes offered, read off the stream by position.              *)
MagicOk == stream[1] = 80 /\ stream[2] = 71
CodeOk == stream[11] \in {20, 21, 22, 23, 128}
PtsBytes == ((stream[3] * 256 + stream[4]) * 256 + stream[5]) * 256 + stream[6]
SizeBytes == stream[12] * 256 + stream[13]

(* C13: read_header returns Ok(None) when the stream is empty; with 13     *)
(* bytes read it returns SegmentPGMissing when bytes 0..2 are not 50 47    *)
(* (whatever the type code byte), else SegmentInvalidTypeCode carrying     *)
(* byte 10 when that is no defined code, else the header with the          *)
(* big-endian pts of bytes 2..6, the type code and the big-endian size of  *)
(* bytes 11..13; the reader is then 13 bytes on.                           *)
C13_ReadHeaderResults ==
    pc \in {"read", "skipped"} =>
    /\ (Len(stream) = 0 =>
          hdr_out = [kind |-> "None", hdr |-> NoHeader, err |-> "", arg |-> 0,
                     pos |-> 0])
    /\ (Len(stream) >= HEADER_LEN =>
          /\ hdr_out.pos = HEADER_LEN
          /\ (~MagicOk =>
                hdr_out.kind = "Err" /\ hdr_out.err = "SegmentPGMissing")
          /\ (MagicOk /\ ~CodeOk =>
                /\ hdr_out.kind = "Err"
                /\ hdr_out.err = "SegmentInvalidTypeCode"
                /\ hdr_out.arg = stream[11])
          /\ (MagicOk /\ CodeOk =>
                /\ hdr_out.kind = "Some"
                /\ hdr_out.hdr = [pts |-> PtsBytes, type_code |-> stream[11],
                                  size |-> SizeBytes]
                /\ hdr_out.hdr = [pts |-> segs[1].pts, type_code |-> segs[1].code,
                                  size |-> segs[1].size]))

(* C13 witness: 13 bytes with both a wrong magic and an undefined type     *)
(* code were read: the error is the missing magic.                         *)
C13_Witness ==
    /\ pc = "read" /\ Len(stream) >= HEADER_LEN
    /\ ~MagicOk /\ ~CodeOk
    /\ hdr_out.err = "SegmentPGMissing"

(* C14: for each byte b of 14, 15, 16, 17, 80 (hex) the variant            *)
(* SegmentTypeCode::try_from(b) gives converts back to b with u8::from;    *)
(* for every other byte of 0..255 try_from fails with                      *)
(* SegmentInvalidTypeCode carrying b, so no unknown code gets a variant.   *)
C14_TypeCodeRoundTrip ==
    pc = "done" =>
    LET b == stream[1] IN
    IF b \in {20, 21, 22, 23, 128}
    THEN hdr_out.kind = "Ok" /\ hdr_out.byte = b /\ hdr_out.variant # "_"
    ELSE /\ hdr_out.kind = "Err"
         /\ hdr_out.err = "SegmentInvalidTypeCode"
         /\ hdr_out.arg = b

(* C14 witness: the byte next to the End code was refused with its value,  *)
(* in a run over all 256 bytes.                                            *)
C14_Witness ==
    /\ pc = "done" /\ stream = <<129>>
    /\ hdr_out.kind = "Err" /\ hdr_out.arg = 129

(* C15: skip_segment moves the reader on by exactly the size of the header *)
(* and changes nothing else, whether the bytes to skip are in the read     *)
(* buffer (consume) or not (relative seek).                                *)
C15_SkipExact ==
    [][(pc = "read" /\ pc' = "skipped") =>
          /\ pos' = pos + segs[1].size
          /\ size(hdr_out.hdr) = segs[1].size
          /\ UNCHANGED <<stream, hdr_out, buf_out, content, yielded>>
          /\ UNCHANGED decoderVars]_vars

(* C15 witness: a segment was skipped whose size is more than the bytes    *)
(* left behind its header: the reader is past the end of the stream.       *)
C15_Witness ==
    /\ pc = "skipped"
    /\ segs[1].size > Len(stream) - HEADER_LEN
    /\ Len(stream) > HEADER_LEN
    /\ pos = HEADER_LEN + segs[1].size

-----------------------------------------------------------------------------
(* The stream s with the 4 decode-timestamp bytes (offsets 6..10) of every *)
(* segment header replaced by the bytes d.                                 *)
WithDts(s, d) ==
    [i \in 1..Len(s) |->
        IF \E j \in 1..Len(segs) : i - offs[j] \in 7..10
        THEN d[i - offs[CHOOSE j \in 1..Len(segs) : i - offs[j] \in 7..10] - 6]
        ELSE s[i]]

(* C16, as claimed: the decode timestamp does not influence decoding.  On  *)
(* the stream and on each stream that differs from it only in the          *)
(* decode-timestamp bytes of its segment headers, read_header at the       *)
(* reader's position gives the same result and a loop turn of the          *)
(* decoder, taken from the same locals, gives the same locals, reader      *)
(* position and result; so the two runs stay equal turn by turn and return *)
(* the same results.                                                       *)
C16_DtsIgnored ==
    \A v \in DtsValues :
        LET s2 == WithDts(stream, BE(v, 4)) IN
        /\ read_header(s2, pos) = read_header(stream, pos)
        /\ (pc = "loop" =>
              parse_next_loop(strategy, s2, Locals, overflow_checks)
                  = parse_next_loop(strategy, stream, Locals, overflow_checks))

-----------------------------------------------------------------------------
(* The buffer offered to SegmentBuf::try_from, read off by position.       *)
BufCodeOk == stream[1] \in {20, 21, 22, 23, 128}
BufDeclared == stream[2] * 256 + stream[3]
BufTried == pc \in {"built", "viewed", "panicked"}

(* C17: for a buffer whose first byte is a valid type code and whose       *)
(* length is 3 + the big-endian size of bytes 1..3, SegmentBuf::try_from   *)
(* succeeds; code() returns the type of byte 0 without panicking,          *)
(* buffer() is the whole input and data() the input without its first 3    *)
(* bytes, as many bytes as the declared size.                              *)
C17_ExactBufferViews ==
    (BufTried /\ Len(stream) >= 3 /\ BufCodeOk /\ Len(stream) = 3 + BufDeclared) =>
    /\ pc # "panicked"
    /\ buf_out.kind = "Ok"
    /\ buf_out.buffer = stream
    /\ (pc = "viewed" =>
          /\ buf_out.code = stream[1]
          /\ buf_out.data = SubSeq(stream, 4, Len(stream))
          /\ Len(buf_out.data) = BufDeclared)

(* C17 witness: the PaletteDef buffer 14 00 03 01 02 03 was viewed.        *)
C17_Witness ==
    /\ pc = "viewed"
    /\ stream = <<20, 0, 3, 1, 2, 3>>
    /\ buf_out.code = Pds /\ buf_out.data = <<1, 2, 3>>

(* C18, as claimed: SegmentBuf::try_from fails with BufferLen whenever 3 + *)
(* the declared size is more than the buffer length, so the data() of      *)
(* every view constructed has as many bytes as the declared size.          *)
C18_TooShortBufferFails ==
    (BufTried /\ Len(stream) >= 3 /\ BufCodeOk) =>
    /\ (3 + BufDeclared > Len(stream) =>
          buf_out.kind = "Err" /\ buf_out.err = "BufferLen")
    /\ (buf_out.kind = "Ok" => Len(SegmentBuf_data(buf_out)) = BufDeclared)

-----------------------------------------------------------------------------
(* The content offered to SegmentSplitter, read off its descriptors.       *)
WellFormedBufSeg(g) == g.code \in {20, 21, 22, 23, 128} /\ g.size = Len(g.body)
WellFormedBuf == \A i \in 1..Len(segs) : WellFormedBufSeg(segs[i])

(* The buffers of the views yielded so far, end to end.                    *)
RECURSIVE YieldedBytes(_)
YieldedBytes(ys) ==
    IF Len(ys) = 0 THEN <<>>
    ELSE IF Head(ys).kind = "Ok" THEN Head(ys).buffer \o YieldedBytes(Tail(ys))
    ELSE YieldedBytes(Tail(ys))

(* C19: over the concatenation of k well-formed buffer-mode segments       *)
(* SegmentSplitter yields k Ok views in input order, the i-th one's buffer *)
(* being the size + 3 bytes of the i-th segment, then None; the buffers    *)
(* yielded, end to end, are the input.                                     *)
C19_SplitsInOrder ==
    WellFormedBuf =>
    /\ pc # "panicked"
    /\ Len(yielded) <= Len(segs) + 1
    /\ \A i \in 1..Len(yielded) :
          IF i <= Len(segs)
          THEN /\ yielded[i].kind = "Ok"
               /\ yielded[i].buffer = BufFrame(segs[i])
               /\ Len(yielded[i].buffer) = segs[i].size + 3
          ELSE yielded[i].kind = "None"
    /\ YieldedBytes(yielded) \o content = stream
    /\ (pc = "finished" <=> Len(yielded) = Len(segs) + 1)
    /\ (pc = "finished" => YieldedBytes(yielded) = stream)

(* C19 witness: three well-formed segments, not all of one size, were      *)
(* split off and the iterator then returned None.                          *)
C19_Witness ==
    /\ WellFormedBuf /\ Len(segs) = 3 /\ pc = "finished"
    /\ segs[1].size # segs[2].size /\ segs[2].size # segs[3].size
    /\ Len(yielded) = 4 /\ yielded[4].kind = "None"

(* C20, as claimed: for every content, also one holding an invalid type    *)
(* code byte, each SegmentSplitter::next that returns Some leaves the      *)
(* content strictly shorter, so that repeated calls come to None.          *)
C20_EachSomeShortens ==
    [][(pc = "split" /\ Len(yielded') = Len(yielded) + 1
          /\ yielded'[Len(yielded')].kind \in {"Ok", "Err"}) =>
        Len(content') < Len(content)]_vars

(* C21, as claimed: buffer-mode ingestion is total over untrusted bytes:   *)
(* for every content, also one whose declared segment size is more than    *)
(* the bytes that remain, SegmentSplitter::next (and the                   *)
(* SegmentBuf::try_from it calls) returns a view or a typed error and      *)
(* never panics.                                                           *)
C21_BufferModeTotal ==
    /\ pc # "panicked"
    /\ \A i \in 1..Len(yielded) : yielded[i].kind # "Panic"

-----------------------------------------------------------------------------
(* Every segment offered has the magic number, a defined type code and as  *)
(* many body bytes as its size says; an End may have a body.               *)
FramedSeg(g) ==
    /\ g.magic = MAGIC_NUMBER
    /\ g.code \in {20, 21, 22, 23, 128}
    /\ g.size = Len(g.body)
Framed == \A i \in 1..Len(segs) : FramedSeg(segs[i])

(* C29, as claimed: the driving loop keeps the reader aligned on segments: *)
(* after a segment of any type was handled, an End with a size other than  *)
(* zero included, the reader is 13 + size bytes after the start of its     *)
(* header, so every header read of a call that began on a segment boundary *)
(* begins on a segment boundary.                                           *)
C29_SegmentAlignment ==
    (strategy = "TimeOnly" /\ Framed /\ IsBoundary(call_start)) =>
    /\ \A i \in 1..Len(hdrs) : IsBoundary(hdrs[i])
    /\ (pc = "loop" /\ Len(hdrs) > 0 /\ hdrs[Len(hdrs)] < Len(stream) =>
          pos = hdrs[Len(hdrs)] + HEADER_LEN + segs[SegAt(hdrs[Len(hdrs)])].size)

(***************************************************************************)
(* content/area.rs                                                         *)
(***************************************************************************)

MaxCoord == 2   \* the small coordinates offered are 0..MaxCoord

Min(a, b) == IF a <= b THEN a ELSE b

(* u16 `+` and `-`: a result outside 0..65535 panics in a build with       *)
(* overflow checks and wraps in a build without.                           *)
u16_add(a, b, checks) ==
    LET s == a + b IN [panic |-> checks /\ s > 65535, value |-> s % 65536]
u16_sub(a, b, checks) ==
    LET d == a - b IN [panic |-> checks /\ d < 0, value |-> d % 65536]

Area_left(self) == self.x1
Area_top(self) == self.y1

(* self.0.x2 + 1 - self.0.x1                                               *)
Area_width(self, checks) ==
    LET s == u16_add(self.x2, 1, checks)
        d == u16_sub(s.value, self.x1, checks) IN
    [panic |-> s.panic \/ d.panic, value |-> d.value]

(* self.0.y2 + 1 - self.0.y1                                               *)
Area_height(self, checks) ==
    LET s == u16_add(self.y2, 1, checks)
        d == u16_sub(s.value, self.y1, checks) IN
    [panic |-> s.panic \/ d.panic, value |-> d.value]

Area_intersect_open(self, a) ==
    /\ self.x1 < a.x2
    /\ self.x2 > a.x1
    /\ self.y1 < a.y2
    /\ self.y2 > a.y1
Area_intersect(self, a) ==
    /\ self.x1 <= a.x2
    /\ self.x2 >= a.x1
    /\ self.y1 <= a.y2
    /\ self.y2 >= a.y1

Area_intersect_y(self, a) ==
    /\ self.y1 <= a.y2
    /\ self.y2 >= a.y1

Area_contains_overlap(self, a) ==
    /\ self.x1 <= a.x1
    /\ self.x2 >= a.x1
    /\ self.y1 <= a.y1
    /\ self.y2 >= a.y1
Area_contains(self, a) ==
    /\ self.x1 <= a.x1
    /\ self.x2 >= a.x2
    /\ self.y1 <= a.y1
    /\ self.y2 >= a.y2

Area_extend_origin(self, a) ==
    [x1 |-> Min(self.x1, a.x1), y1 |-> Min(self.y1, a.y1),
     x2 |-> self.x2, y2 |-> self.y2]
Area_extend(self, a) ==
    [x1 |-> Min(self.x1, a.x1), y1 |-> Min(self.y1, a.y1),
     x2 |-> Max(self.x2, a.x2), y2 |-> Max(self.y2, a.y2)]

Area_try_from_lt(coords_value) ==
    IF coords_value.x2 < coords_value.x1 \/ coords_value.y2 < coords_value.y1
    THEN [ok |-> FALSE, err |-> "InvalidAreaBounding", value |-> NoAreaValues]
    ELSE [ok |-> TRUE, err |-> "", value |-> coords_value]
Area_try_from(coords_value) ==
    IF coords_value.x2 <= coords_value.x1 \/ coords_value.y2 <= coords_value.y1
    THEN [ok |-> FALSE, err |-> "InvalidAreaBounding", value |-> NoAreaValues]
    ELSE [ok |-> TRUE, err |-> "", value |-> coords_value]

(* The coordinates offered: the smallest ones and the largest u16.         *)
Coords == (0..MaxCoord) \cup {65535}
AreaInputs == [x1 : Coords, y1 : Coords, x2 : Coords, y2 : Coords]
(* The values an Area can hold: those try_from accepts.                    *)
Areas == {v \in AreaInputs : Area_try_from(v).ok}

AreaOut(kind, self, num, flag, err) ==
    [kind |-> kind, self |-> self, num |-> num, flag |-> flag, err |-> err]

InitArea ==
    /\ segs = <<>>
    /\ offs = <<>>
    /\ stream = <<>>
    /\ pos = 0
    /\ pc = "values"
    /\ strategy = "None"
    /\ overflow_checks \in BOOLEAN
    /\ start_time = None
    /\ subtitle = None
    /\ palette = None
    /\ image = None
    /\ prev_ods = None
    /\ hdrs = <<>>
    /\ call_start = 0
    /\ returned = <<>>
    /\ ods_out = NoOdsOut
    /\ UnitsIdle
    /\ area = NoAreaValues
    /\ area_arg \in Areas
    /\ area_out = NoAreaOut
    /\ time_point = NoTimePoint
    /\ time_out = NoTimeOut
    /\ processor = SegmentProcessor_default

areaRest == <<segs, offs, stream, pos, strategy, overflow_checks, start_time,
              subtitle, palette, image, prev_ods, hdrs, call_start, returned,
              ods_out, area_arg, time_point, time_out, processor>>

(* Area::try_from(coords_value); area_out.self keeps the values offered.   *)
AreaTryFrom ==
    /\ pc = "values"
    /\ \E v \in AreaInputs :
         LET r == Area_try_from(v) IN
         /\ area' = r.value
         /\ area_out' = AreaOut("try_from", v, 0, r.ok, r.err)
         /\ pc' = IF r.ok THEN "area" ELSE "refused"
    /\ UNCHANGED areaRest
    /\ UNCHANGED unitVars

AreaLeft ==
    /\ pc = "area"
    /\ area_out' = AreaOut("left", area, Area_left(area), FALSE, "")
    /\ UNCHANGED <<pc, area>>
    /\ UNCHANGED areaRest
    /\ UNCHANGED unitVars

AreaTop ==
    /\ pc = "area"
    /\ area_out' = AreaOut("top", area, Area_top(area), FALSE, "")
    /\ UNCHANGED <<pc, area>>
    /\ UNCHANGED areaRest
    /\ UNCHANGED unitVars

AreaWidth ==
    /\ pc = "area"
    /\ LET r == Area_width(area, overflow_checks) IN
       /\ area_out' = AreaOut("width", area, IF r.panic THEN 0 ELSE r.value, FALSE, "")
       /\ pc' = IF r.panic THEN "panicked" ELSE pc
    /\ UNCHANGED area
    /\ UNCHANGED areaRest
    /\ UNCHANGED unitVars

AreaHeight ==
    /\ pc = "area"
    /\ LET r == Area_height(area, overflow_checks) IN
       /\ area_out' = AreaOut("height", area, IF r.panic THEN 0 ELSE r.value, FALSE, "")
       /\ pc' = IF r.panic THEN "panicked" ELSE pc
    /\ UNCHANGED area
    /\ UNCHANGED areaRest
    /\ UNCHANGED unitVars

AreaIntersect ==
    /\ pc = "area"
    /\ area_out' = AreaOut("intersect", area, 0, Area_intersect(area, area_arg), "")
    /\ UNCHANGED <<pc, area>>
    /\ UNCHANGED areaRest
    /\ UNCHANGED unitVars

AreaIntersectY ==
    /\ pc = "area"
    /\ area_out' = AreaOut("intersect_y", area, 0, Area_intersect_y(area, area_arg), "")
    /\ UNCHANGED <<pc, area>>
    /\ UNCHANGED areaRest
    /\ UNCHANGED unitVars

AreaContains ==
    /\ pc = "area"
    /\ area_out' = AreaOut("contains", area, 0, Area_contains(area, area_arg), "")
    /\ UNCHANGED <<pc, area>>
    /\ UNCHANGED areaRest
    /\ UNCHANGED unitVars

(* self.extend(area_arg); area_out.self keeps self as it was before.       *)
AreaExtend ==
    /\ pc = "area"
    /\ area' = Area_extend(area, area_arg)
    /\ area_out' = AreaOut("extend", area, 0, FALSE, "")
    /\ UNCHANGED pc
    /\ UNCHANGED areaRest
    /\ UNCHANGED unitVars

NextArea ==
    \/ AreaTryFrom
    \/ AreaLeft
    \/ AreaTop
    \/ AreaWidth
    \/ AreaHeight
    \/ AreaIntersect
    \/ AreaIntersectY
    \/ AreaContains
    \/ AreaExtend

SpecArea == InitArea /\ [][NextArea]_vars

(* C22: Area::try_from succeeds exactly when x2 > x1 and y2 > y1 and       *)
(* otherwise fails with InvalidAreaBounding; the Area it returns holds the *)
(* four coordinates offered, and left() and top() of an Area are its x1    *)
(* and y1.                                                                 *)
C22_TryFromBounds ==
    /\ area_out.kind = "try_from" =>
         /\ area_out.flag <=> (area_out.self.x2 > area_out.self.x1 /\
                               area_out.self.y2 > area_out.self.y1)
         /\ area_out.flag => (pc = "area" /\ area = area_out.self /\
                              Area_left(area) = area_out.self.x1 /\
                              Area_top(area) = area_out.self.y1)
         /\ ~area_out.flag => (pc = "refused" /\ area_out.err = "InvalidAreaBounding")
    /\ area_out.kind = "left" => area_out.num = area.x1
    /\ area_out.kind = "top" => area_out.num = area.y1

C22_Witness ==
    /\ area_out.kind = "try_from"
    /\ area_out.flag
    /\ area_out.self = [x1 |-> 1, y1 |-> 0, x2 |-> 65535, y2 |-> 2]
    /\ area = area_out.self

(* C23, as claimed: for every Area, those with x2 = 65535 or y2 = 65535    *)
(* included, width() returns x2 + 1 - x1 and height() returns y2 + 1 - y1  *)
(* and neither panics.                                                     *)
C23_ExactExtent ==
    /\ area_out.kind = "width" =>
         (pc # "panicked" /\ area_out.num = area.x2 + 1 - area.x1)
    /\ area_out.kind = "height" =>
         (pc # "panicked" /\ area_out.num = area.y2 + 1 - area.y1)

(* The closed ranges lo1..hi1 and lo2..hi2 have a point in common.  Two    *)
(* ranges that share a point share one of their ends.                      *)
RangesOverlap(lo1, hi1, lo2, hi2) ==
    \E p \in {lo1, hi1, lo2, hi2} : lo1 <= p /\ p <= hi1 /\ lo2 <= p /\ p <= hi2

(* C24: intersect is true exactly when the closed x ranges and the closed  *)
(* y ranges of the two areas overlap, areas that only share an edge        *)
(* included; it is symmetric and every area intersects itself.             *)
C24_IntersectClosed ==
    area_out.kind = "intersect" =>
      /\ area_out.flag <=>
           (RangesOverlap(area.x1, area.x2, area_arg.x1, area_arg.x2) /\
            RangesOverlap(area.y1, area.y2, area_arg.y1, area_arg.y2))
      /\ area_out.flag <=> Area_intersect(area_arg, area)
      /\ area = area_arg => area_out.flag
      /\ Area_intersect(area, area)

C24_Witness ==
    /\ area_out.kind = "intersect"
    /\ area_out.flag
    /\ area.x2 = area_arg.x1
    /\ area.y2 = area_arg.y1

(* C25: contains(a, b) is true exactly when a.x1 <= b.x1, a.y1 <= b.y1,    *)
(* b.x2 <= a.x2 and b.y2 <= a.y2; it is reflexive and transitive, and an   *)
(* area that contains another intersects it, on both axes and on y.        *)
C25_ContainsOrder ==
    area_out.kind = "contains" =>
      /\ area_out.flag <=>
           (area.x1 <= area_arg.x1 /\ area.y1 <= area_arg.y1 /\
            area_arg.x2 <= area.x2 /\ area_arg.y2 <= area.y2)
      /\ area = area_arg => area_out.flag
      /\ Area_contains(area, area)
      /\ area_out.flag =>
           /\ Area_intersect(area, area_arg)
           /\ Area_intersect_y(area, area_arg)
           /\ \A c \in Areas : Area_contains(area_arg, c) => Area_contains(area, c)

C25_Witness ==
    /\ area_out.kind = "contains"
    /\ area_out.flag
    /\ area # area_arg
    /\ \E c \in Areas : c # area_arg /\ Area_contains(area_arg, c)

(* C26: extend makes self (min x1, min y1, max x2, max y2) of the two      *)
(* areas: the result contains both, is still an acceptable Area, does not  *)
(* depend on which of the two was self, and extending again by the same    *)
(* area changes nothing.                                                   *)
C26_ExtendHull ==
    area_out.kind = "extend" =>
      /\ area = [x1 |-> Min(area_out.self.x1, area_arg.x1),
                 y1 |-> Min(area_out.self.y1, area_arg.y1),
                 x2 |-> Max(area_out.self.x2, area_arg.x2),
                 y2 |-> Max(area_out.self.y2, area_arg.y2)]
      /\ Area_contains(area, area_out.self)
      /\ Area_contains(area, area_arg)
      /\ Area_try_from(area).ok
      /\ area = Area_extend(area_arg, area_out.self)
      /\ Area_extend(area, area_arg) = area

C26_Witness ==
    /\ area_out.kind = "extend"
    /\ area # area_out.self
    /\ area # area_arg
    /\ area.x2 = 65535

(***************************************************************************)
(* time/time_point.rs                                                      *)
(*                                                                         *)
(* TimePoint holds an i64.  An i64 is kept as a sign and a magnitude in    *)
(* decimal digits, most significant first, so that the whole range of the  *)
(* type, i64::MIN and i64::MAX included, is computed with.                 *)
(***************************************************************************)

RECURSIVE StripZeros(_)
StripZeros(ds) ==
    IF Len(ds) > 1 /\ ds[1] = 0 THEN StripZeros(Tail(ds)) ELSE ds

RECURSIVE NatDigits(_)
NatDigits(n) ==
    IF n < 10 THEN <<n>> ELSE Append(NatDigits(n \div 10), n % 10)

(* Long division of the natural number ds by the small natural d.          *)
RECURSIVE NatDivFrom(_, _, _, _)
NatDivFrom(ds, d, r, q) ==
    IF ds = <<>> THEN [q |-> StripZeros(q), r |-> r]
    ELSE LET cur == r * 10 + Head(ds) IN
         NatDivFrom(Tail(ds), d, cur % d, Append(q, cur \div d))
NatDivMod(ds, d) == NatDivFrom(ds, d, 0, <<>>)

(* ds * k + a for small naturals k and a.                                  *)
RECURSIVE NatMulAddFrom(_, _, _, _)
NatMulAddFrom(ds, k, c, out) ==
    IF ds = <<>> THEN StripZeros(NatDigits(c) \o out)
    ELSE LET cur == ds[Len(ds)] * k + c IN
         NatMulAddFrom(SubSeq(ds, 1, Len(ds) - 1), k, cur \div 10, <<cur % 10>> \o out)
NatMulAdd(ds, k, a) == NatMulAddFrom(ds, k, a, <<>>)

I64(neg, mag) == [neg |-> neg, mag |-> mag]
i64_of(n) == I64(n < 0, NatDigits(IF n < 0 THEN 0 - n ELSE n))
I64_MIN == I64(TRUE, <<9,2,2,3,3,7,2,0,3,6,8,5,4,7,7,5,8,0,8>>)
I64_MAX == I64(FALSE, <<9,2,2,3,3,7,2,0,3,6,8,5,4,7,7,5,8,0,7>>)

(* i64 unary `-`: the negation of i64::MIN is not an i64; it panics in a   *)
(* build with overflow checks and wraps to i64::MIN in a build without.    *)
i64_neg(x, checks) ==
    IF x = I64_MIN THEN [panic |-> checks, value |-> I64_MIN]
    ELSE [panic |-> FALSE, value |-> I64(~x.neg /\ x.mag # <<0>>, x.mag)]

(* i64 `/` and `%` by a positive constant: the quotient is truncated       *)
(* towards zero, the remainder has the sign of the dividend.               *)
i64_div(x, d) ==
    LET q == NatDivMod(x.mag, d).q IN I64(x.neg /\ q # <<0>>, q)
i64_rem(x, d) ==
    LET r == NatDivMod(x.mag, d).r IN I64(x.neg /\ r # 0, NatDigits(r))

TimePoint_msecs(self) == self
TimePoint_secs(self) == i64_div(self, 1000)
TimePoint_mins(self) == i64_div(self, 60 * 1000)
TimePoint_hours(self) == i64_div(self, 60 * 60 * 1000)
TimePoint_mins_comp(self) == i64_rem(TimePoint_mins(self), 60)
TimePoint_secs_comp(self) == i64_rem(TimePoint_secs(self), 60)
TimePoint_msecs_comp(self) == i64_rem(TimePoint_msecs(self), 1000)

(* impl Neg for TimePoint                                                  *)
TimePoint_neg(self, checks) == i64_neg(self, checks)

DigitChar == <<"0", "1", "2", "3", "4", "5", "6", "7", "8", "9">>
DigitChars(ds) == [i \in 1..Len(ds) |-> DigitChar[ds[i] + 1]]
Zeros(n) == [i \in 1..n |-> "0"]

(* `{:0w}` of an i64: the sign, then zeros up to the width, then the       *)
(* digits; the sign counts in the width.                                   *)
fmt_zero_padded(x, w) ==
    LET sign == IF x.neg THEN <<"-">> ELSE <<>> IN
    sign \o Zeros(Max(0, w - Len(sign) - Len(x.mag))) \o DigitChars(x.mag)

(* impl fmt::Display for TimePoint                                         *)
TimePoint_fmt(self, checks) ==
    LET n == IF self.neg THEN TimePoint_neg(self, checks)
             ELSE [panic |-> FALSE, value |-> self]
        t == n.value IN
    [panic |-> n.panic,
     text |-> (IF self.neg THEN <<"-">> ELSE <<>>)
              \o fmt_zero_padded(TimePoint_hours(t), 2) \o <<":">>
              \o fmt_zero_padded(TimePoint_mins_comp(t), 2) \o <<":">>
              \o fmt_zero_padded(TimePoint_secs_comp(t), 2) \o <<",">>
              \o fmt_zero_padded(TimePoint_msecs_comp(t), 3)]

(* The millisecond values offered: every combination of the components     *)
(* below, of both signs, and the ends of the i64 range.                    *)
HourValues == {0, 1, 99, 100}
MinValues == {0, 2, 59}
SecValues == {0, 3, 59}
MsecValues == {0, 5, 999}
SmallMsecs ==
    {h * 3600000 + m * 60000 + s * 1000 + ms :
        h \in HourValues, m \in MinValues, s \in SecValues, ms \in MsecValues}
TimePoints ==
    {TimePoint_from_msecs(i64_of(n)) : n \in SmallMsecs}
    \cup {TimePoint_from_msecs(i64_of(0 - n)) : n \in SmallMsecs}
    \cup {TimePoint_from_msecs(I64_MIN), TimePoint_from_msecs(I64_MAX)}

InitTimePoint ==
    /\ segs = <<>>
    /\ offs = <<>>
    /\ stream = <<>>
    /\ pos = 0
    /\ pc = "time"
    /\ strategy = "None"
    /\ overflow_checks \in BOOLEAN
    /\ start_time = None
    /\ subtitle = None
    /\ palette = None
    /\ image = None
    /\ prev_ods = None
    /\ hdrs = <<>>
    /\ call_start = 0
    /\ returned = <<>>
    /\ ods_out = NoOdsOut
    /\ UnitsIdle
    /\ area = NoAreaValues
    /\ area_arg = NoAreaValues
    /\ area_out = NoAreaOut
    /\ time_point \in TimePoints
    /\ time_out = NoTimeOut
    /\ processor = SegmentProcessor_default

timeRest == <<segs, offs, stream, pos, strategy, overflow_checks, start_time,
              subtitle, palette, image, prev_ods, hdrs, call_start, returned,
              ods_out, area, area_arg, area_out, processor>>

(* format!("{}", time_point)                                               *)
TimePointDisplay ==
    /\ pc = "time"
    /\ LET r == TimePoint_fmt(time_point, overflow_checks) IN
       /\ time_out' = [kind |-> IF r.panic THEN "Panic" ELSE "Ok",
                       text |-> IF r.panic THEN <<>> ELSE r.text]
       /\ pc' = IF r.panic THEN "panicked" ELSE "shown"
    /\ UNCHANGED time_point
    /\ UNCHANGED timeRest
    /\ UNCHANGED unitVars

(* time_point = -time_point                                                *)
TimePointNeg ==
    /\ pc = "time"
    /\ time_out.kind = ""
    /\ LET r == TimePoint_neg(time_point, overflow_checks) IN
       /\ time_point' = r.value
       /\ time_out' = [kind |-> IF r.panic THEN "Panic" ELSE "Neg", text |-> <<>>]
       /\ pc' = IF r.panic THEN "panicked" ELSE pc
    /\ UNCHANGED timeRest
    /\ UNCHANGED unitVars

NextTimePoint ==
    \/ TimePointDisplay
    \/ TimePointNeg

SpecTimePoint == InitTimePoint /\ [][NextTimePoint]_vars

(* The text HH:MM:SS,mmm of the natural number n of milliseconds, with     *)
(* HH = n div 3600000 on at least two digits, MM = (n div 60000) mod 60,   *)
(* SS = (n div 1000) mod 60 and mmm = n mod 1000.                          *)
ClockHH(n) == NatDivMod(n, 3600000).q
ClockMM(n) == NatDivMod(NatDivMod(n, 60000).q, 60).r
ClockSS(n) == NatDivMod(NatDivMod(n, 1000).q, 60).r
ClockMs(n) == NatDivMod(n, 1000).r
TwoDigits(k) == <<DigitChar[(k \div 10) + 1], DigitChar[(k % 10) + 1]>>
ClockText(n) ==
    (IF Len(ClockHH(n)) < 2 THEN <<"0">> ELSE <<>>) \o DigitChars(ClockHH(n))
    \o <<":">> \o TwoDigits(ClockMM(n))
    \o <<":">> \o TwoDigits(ClockSS(n))
    \o <<",", DigitChar[(ClockMs(n) \div 100) + 1]>> \o TwoDigits(ClockMs(n) % 100)

(* C27, as claimed: for every millisecond value m the display of           *)
(* TimePoint(m) succeeds; for m >= 0 it is HH:MM:SS,mmm with the           *)
(* components above, which recombine to m; for m < 0 it is '-' followed by *)
(* the text of |m|.                                                        *)
C27_DisplaySignAware ==
    pc \in {"shown", "panicked"} =>
      /\ pc = "shown"
      /\ time_out.text = (IF time_point.neg THEN <<"-">> ELSE <<>>)
                         \o ClockText(time_point.mag)
      /\ NatMulAdd(ClockHH(time_point.mag), 3600000,
                   ClockMM(time_point.mag) * 60000
                   + ClockSS(time_point.mag) * 1000
                   + ClockMs(time_point.mag)) = time_point.mag

(***************************************************************************)
(* SegmentProcessor, of pgs/decoder.rs (fed a SegmentBuf) and of           *)
(* pgs/mod.rs (fed a type code and the payload).                           *)
(***************************************************************************)

MaxProcess == 3   \* most segments handed to one SegmentProcessor

(* pgs/decoder.rs.  A failed assert! panics before the assignment.         *)
decoder_process_segment_overwrite(self, seg_sub) ==   \* variant: no assert!
    LET code == SegmentBuf_code(seg_sub).code IN
    CASE code = Pds -> [panic |-> FALSE,
                        self |-> [self EXCEPT !.pds_data = Some(SegmentBuf_data(seg_sub))]]
      [] code = Ods -> [panic |-> FALSE,
                        self |-> [self EXCEPT !.ods_data = Some(SegmentBuf_data(seg_sub))]]
      [] code \in {Pcs, Wds} -> [panic |-> FALSE, self |-> self]
      [] code = End -> [panic |-> FALSE, self |-> [self EXCEPT !.complete = TRUE]]
decoder_process_segment(self, seg_sub) ==
    LET code == SegmentBuf_code(seg_sub).code IN
    CASE code = Pds ->
           IF ~IsNone(self.pds_data) THEN [panic |-> TRUE, self |-> self]
           ELSE [panic |-> FALSE,
                 self |-> [self EXCEPT !.pds_data = Some(SegmentBuf_data(seg_sub))]]
      [] code = Ods ->
           IF ~IsNone(self.ods_data) THEN [panic |-> TRUE, self |-> self]
           ELSE [panic |-> FALSE,
                 self |-> [self EXCEPT !.ods_data = Some(SegmentBuf_data(seg_sub))]]
      [] code \in {Pcs, Wds} -> [panic |-> FALSE, self |-> self]
      [] code = End -> [panic |-> FALSE, self |-> [self EXCEPT !.complete = TRUE]]

(* pgs/mod.rs                                                              *)
mod_process_segment(self, code, segment_data) ==
    CASE code = Pds ->
           IF ~IsNone(self.pds_data) THEN [panic |-> TRUE, self |-> self]
           ELSE [panic |-> FALSE, self |-> [self EXCEPT !.pds_data = Some(segment_data)]]
      [] code = Ods ->
           IF ~IsNone(self.ods_data) THEN [panic |-> TRUE, self |-> self]
           ELSE [panic |-> FALSE, self |-> [self EXCEPT !.ods_data = Some(segment_data)]]
      [] code = Pcs -> [panic |-> FALSE, self |-> self]
      [] code = Wds -> [panic |-> FALSE, self |-> self]
      [] code = End -> [panic |-> FALSE, self |-> [self EXCEPT !.complete = TRUE]]

(* The buffer-mode segments handed over: two palettes and two objects of   *)
(* different payloads, the ignored kinds, and End.                         *)
ProcessorSegs ==
    {BufSeg(Pds, 2, <<5, 6>>), BufSeg(Pds, 1, <<9>>),
     BufSeg(Ods, 1, <<8>>), BufSeg(Ods, 2, <<8, 7>>),
     BufSeg(Pcs, 1, <<1>>), BufSeg(Wds, 1, <<20>>), BufSeg(End, 0, <<>>)}

InitProcessor ==
    /\ segs \in SeqsUpTo(ProcessorSegs, MaxProcess)
    /\ offs = <<>>
    /\ stream = <<>>
    /\ pos = 0
    /\ pc = "process"
    /\ DecoderIdle
    /\ UnitsIdle
    /\ area = NoAreaValues
    /\ area_arg = NoAreaValues
    /\ area_out = NoAreaOut
    /\ time_point = NoTimePoint
    /\ time_out = NoTimeOut
    /\ processor = SegmentProcessor_default

(* processor.process_segment(&seg_sub) on the next SegmentBuf; `pos`       *)
(* counts the segments handed over.                                        *)
ProcessSegment ==
    /\ pc = "process"
    /\ pos < Len(segs)
    /\ LET seg_sub == SegmentBuf_try_from(BufFrame(segs[pos + 1]))
           r == decoder_process_segment(processor, seg_sub) IN
       /\ processor' = r.self
       /\ pc' = IF r.panic THEN "panicked" ELSE pc
    /\ pos' = pos + 1
    /\ UNCHANGED <<segs, offs, stream, area, area_arg, area_out, time_point, time_out>>
    /\ UNCHANGED decoderVars
    /\ UNCHANGED unitVars

(* processor.process_segment(code, segment_data), of pgs/mod.rs            *)
ProcessSegmentData ==
    /\ pc = "process"
    /\ pos < Len(segs)
    /\ LET r == mod_process_segment(processor, segs[pos + 1].code, segs[pos + 1].body) IN
       /\ processor' = r.self
       /\ pc' = IF r.panic THEN "panicked" ELSE pc
    /\ pos' = pos + 1
    /\ UNCHANGED <<segs, offs, stream, area, area_arg, area_out, time_point, time_out>>
    /\ UNCHANGED decoderVars
    /\ UNCHANGED unitVars

NextProcessor ==
    \/ ProcessSegment
    \/ ProcessSegmentData

SpecProcessor == InitProcessor /\ [][NextProcessor]_vars

(* What one process_segment call on the segment g may do to the state.     *)
WriteOnceStep(g) ==
    /\ ~IsNone(processor.pds_data) => processor'.pds_data = processor.pds_data
    /\ ~IsNone(processor.ods_data) => processor'.ods_data = processor.ods_data
    /\ processor.complete => processor'.complete
    /\ g.code = Pds =>
         /\ processor'.ods_data = processor.ods_data
         /\ processor'.complete = processor.complete
         /\ IF IsNone(processor.pds_data)
            THEN processor'.pds_data = Some(g.body) /\ pc' = "process"
            ELSE pc' = "panicked"
    /\ g.code = Ods =>
         /\ processor'.pds_data = processor.pds_data
         /\ processor'.complete = processor.complete
         /\ IF IsNone(processor.ods_data)
            THEN processor'.ods_data = Some(g.body) /\ pc' = "process"
            ELSE pc' = "panicked"
    /\ g.code \in {Pcs, Wds} => (processor' = processor /\ pc' = "process")
    /\ g.code = End =>
         (processor' = [processor EXCEPT !.complete = TRUE] /\ pc' = "process")

(* C30: over any sequence of process_segment calls the first palette       *)
(* payload and the first object payload stored are never replaced, a       *)
(* second palette or object segment fails the assertion and overwrites     *)
(* nothing, PresentationComposition and WindowDef segments change nothing, *)
(* End only sets complete, and complete never goes back to false.          *)
C30_WriteOnce ==
    [][pos' = pos + 1 => WriteOnceStep(segs[pos + 1])]_vars

C30_Witness ==
    /\ pc = "panicked"
    /\ pos = 3
    /\ segs[1].code = Pds
    /\ segs[2].code = End
    /\ segs[3].code = Pds
    /\ segs[3].body # segs[1].body
    /\ processor = [pds_data |-> Some(segs[1].body), ods_data |-> None, complete |-> TRUE]

(***************************************************************************)
(* The two strategies on one stream                                        *)
(***************************************************************************)

(* DecodeTimeOnly::parse_next run to its end from the locals d: the loop   *)
(* turns, then the return.  Every turn reads a header or leaves the loop.  *)
RECURSIVE DecodeTimeOnly_run(_, _)
DecodeTimeOnly_run(s, d) ==
    IF d.pc = "loop" THEN DecodeTimeOnly_run(s, DecodeTimeOnly_loop(s, d))
    ELSE IF d.pc = "exit" THEN DecodeTimeOnly_return(d)
    ELSE d

(* Streams for the two strategies side by side: a prefix on which the      *)
(* first call fails, then segments of every kind the image strategy        *)
(* handles, an End segment with a body among them.                         *)
AgreePrefixes ==
    {<<>>,
     <<Seg(MAGIC_NUMBER, 90, 7, 129, 0, <<>>)>>,
     <<EndSeg(179), EndSeg(179)>>}
AgreeSegs ==
    {EndSeg(p) : p \in PtsValues}
    \cup {PdsSeg(<<5>>), OdsSeg(FirstAndLast, 2, 1, <<8, 9>>), SkipSeg(Wds, <<1>>),
          Seg(MAGIC_NUMBER, 270, 7, End, 2, MAGIC_NUMBER)}

InitAgree ==
    /\ segs \in {pre \o core : pre \in AgreePrefixes, core \in SeqsUpTo(AgreeSegs, MaxSegs)}
    /\ offs = [i \in 1..(Len(segs) + 1) |-> Offset(segs, i)]
    /\ stream = Flatten(segs)
    /\ strategy = "TimeImage"
    /\ overflow_checks = TRUE
    /\ pos = 0
    /\ pc = "idle"
    /\ start_time = None
    /\ subtitle = None
    /\ palette = None
    /\ image = None
    /\ prev_ods = None
    /\ hdrs = <<>>
    /\ call_start = 0
    /\ returned = <<>>
    /\ ods_out = NoOdsOut
    /\ UnitsIdle
    /\ MoreIdle

SpecAgree == InitAgree /\ [][NextDecoder]_vars

(* DecodeTimeOnly::parse_next(reader) with the reader at offset p.         *)
DecodeTimeOnly_parse_next(s, p) == DecodeTimeOnly_run(s, parse_next_enter(p))

(* C28: whenever DecodeTimeImage::parse_next returns Some((span, image)),  *)
(* DecodeTimeOnly::parse_next on the same stream from the position that    *)
(* call started at returns Some(span') with the same start and the same    *)
(* end.                                                                    *)
C28_StrategiesAgree ==
    (/\ strategy = "TimeImage"
     /\ pc = "idle"
     /\ Len(returned) > 0
     /\ LastReturned.kind = "Ok"
     /\ IsSome(LastReturned.sub)) =>
    LET o == Unwrap(DecodeTimeOnly_parse_next(stream, call_start).out) IN
    /\ o.kind = "Ok"
    /\ IsSome(o.sub)
    /\ Unwrap(o.sub).start = Unwrap(LastReturned.sub).times.start
    /\ Unwrap(o.sub).end = Unwrap(LastReturned.sub).times.end

C28_Witness ==
    /\ strategy = "TimeImage"
    /\ pc = "idle"
    /\ Len(returned) = 2
    /\ returned[1].kind = "Err"
    /\ call_start = HEADER_LEN
    /\ LastReturned.kind = "Ok"
    /\ IsSome(LastReturned.sub)
    /\ Unwrap(LastReturned.sub).times.start < Unwrap(LastReturned.sub).times.end
    /\ Len(hdrs) = 4
    /\ segs[Len(segs)].size = 2
====
